---- MODULE Spec2Model ----
(***************************************************************************)
(* Model of the SimulatorManager of mcp-server-ios-simulator               *)
(* (src/src/simulator/simulator-manager.ts): the tiered device resolver    *)
(* and the in-memory session registry with its asynchronous operations.    *)
(*                                                                         *)
(* A JavaScript string is a sequence of one-character strings, so that     *)
(* toLowerCase, includes, the whitespace normalisation and the regular     *)
(* expressions of the resolver are computed character by character.        *)
(***************************************************************************)
EXTENDS Naturals, Integers, Sequences, FiniteSets, TLC

(***************************************************************************)
(* Characters and the string primitives of the JavaScript runtime          *)
(***************************************************************************)
UpperLetters == <<"A","B","C","D","E","F","G","H","I","J","K","L","M",
                  "N","O","P","Q","R","S","T","U","V","W","X","Y","Z">>
LowerLetters == <<"a","b","c","d","e","f","g","h","i","j","k","l","m",
                  "n","o","p","q","r","s","t","u","v","w","x","y","z">>
Digits == {"0","1","2","3","4","5","6","7","8","9"}

Range(s) == {s[i] : i \in DOMAIN s}

\* the lower-case letter of every upper-case letter
LowerOf ==
    [c \in Range(UpperLetters) |->
        LowerLetters[CHOOSE i \in DOMAIN UpperLetters : UpperLetters[i] = c]]

\* String.prototype.toLowerCase on one character
toLowerChar(c) == IF c \in DOMAIN LowerOf THEN LowerOf[c] ELSE c

\* String.prototype.toLowerCase
toLowerCase(s) == [i \in DOMAIN s |-> toLowerChar(s[i])]

\* String.prototype.includes: sub occurs in s as a contiguous run
includes(s, sub) ==
    \E i \in 0..(Len(s) - Len(sub)) :
        \A k \in 1..Len(sub) : s[i + k] = sub[k]

\* the regular-expression class \w
WordChars == Range(UpperLetters) \cup Range(LowerLetters) \cup Digits \cup {"_"}
isWordChar(c) == c \in WordChars

\* the regular-expression class \s (the members that occur in the inputs)
isSpaceChar(c) == c \in {" ", "\t", "\n"}

\* the class [0-9A-F] under the flag i
HexChars == Digits \cup {"A","B","C","D","E","F","a","b","c","d","e","f"}
isHexChar(c) == c \in HexChars

\* s.replace(/\s+/g, ' '): every maximal run of whitespace becomes one space
RECURSIVE collapseWhitespace(_)
collapseWhitespace(s) ==
    IF s = << >> THEN << >>
    ELSE IF isSpaceChar(Head(s))
         THEN IF Len(s) > 1 /\ isSpaceChar(s[2])
              THEN collapseWhitespace(Tail(s))
              ELSE <<" ">> \o collapseWhitespace(Tail(s))
         ELSE <<Head(s)>> \o collapseWhitespace(Tail(s))

RECURSIVE trimStart(_)
trimStart(s) ==
    IF s # << >> /\ isSpaceChar(Head(s)) THEN trimStart(Tail(s)) ELSE s

RECURSIVE trimEnd(_)
trimEnd(s) ==
    IF s # << >> /\ isSpaceChar(s[Len(s)])
    THEN trimEnd(SubSeq(s, 1, Len(s) - 1))
    ELSE s

\* String.prototype.trim
trim(s) == trimEnd(trimStart(s))

\* the characters of the class [-\/\\^$*+?.()|[\]{}]
RegexSpecials ==
    {"-", "/", "\\", "^", "$", "*", "+", "?", ".", "(", ")", "|", "[", "]", "{", "}"}

\* s.replace(/[-\/\\^$*+?.()|[\]{}]/g, '\\$&'): a backslash before each special
RECURSIVE escapeRegExp(_)
escapeRegExp(s) ==
    IF s = << >> THEN << >>
    ELSE IF Head(s) \in RegexSpecials
         THEN <<"\\", Head(s)>> \o escapeRegExp(Tail(s))
         ELSE <<Head(s)>> \o escapeRegExp(Tail(s))

\* new RegExp(src): the literal characters the escaped source stands for
\* (a backslash makes the next character literal)
RECURSIVE regexLiterals(_)
regexLiterals(src) ==
    IF src = << >> THEN << >>
    ELSE IF Head(src) = "\\" /\ Len(src) > 1
         THEN <<src[2]>> \o regexLiterals(Tail(Tail(src)))
         ELSE <<Head(src)>> \o regexLiterals(Tail(src))

\* the assertion \b at position k of s (between s[k] and s[k+1])
wordBoundaryAt(s, k) ==
    LET before == k >= 1 /\ k <= Len(s) /\ isWordChar(s[k])
        after  == k + 1 >= 1 /\ k + 1 <= Len(s) /\ isWordChar(s[k + 1])
    IN  before # after

\* pattern.test(s) for pattern = new RegExp(`\\b${src}\\b`, 'i'), given the
\* literal characters `lit` that src stands for
wordBoundaryTest(lit, s) ==
    \E i \in 0..(Len(s) - Len(lit)) :
        /\ wordBoundaryAt(s, i)
        /\ wordBoundaryAt(s, i + Len(lit))
        /\ \A k \in 1..Len(lit) : toLowerChar(s[i + k]) = toLowerChar(lit[k])

\* the hexadecimal group lengths of /^[0-9A-F]{8}-([0-9A-F]{4}-){3}[0-9A-F]{12}$/i
UdidGroups == <<8, 4, 4, 4, 12>>

RECURSIVE matchHexGroups(_, _)
matchHexGroups(s, groups) ==
    LET n == Head(groups)
    IN  /\ Len(s) >= n
        /\ \A i \in 1..n : isHexChar(s[i])
        /\ IF Len(groups) = 1
           THEN Len(s) = n
           ELSE /\ Len(s) > n
                /\ s[n + 1] = "-"
                /\ matchHexGroups(SubSeq(s, n + 2, Len(s)), Tail(groups))

\* deviceName.match(/^[0-9A-F]{8}-([0-9A-F]{4}-){3}[0-9A-F]{12}$/i)
isUdidSyntax(s) == matchHexGroups(s, UdidGroups)

\* a JavaScript value that is falsy in `a || b`: undefined or the empty string
\* (an absent option and "" take the same branch everywhere they are read)
Falsy(s) == s = << >>

(***************************************************************************)
(* String literals                                                         *)
(***************************************************************************)
RECURSIVE Repeat(_, _)
Repeat(c, n) == IF n = 0 THEN << >> ELSE <<c>> \o Repeat(c, n - 1)

\* a UDID whose hexadecimal digits are all the character c
RECURSIVE UdidFrom(_, _)
UdidFrom(c, groups) ==
    IF Len(groups) = 1 THEN Repeat(c, Head(groups))
    ELSE Repeat(c, Head(groups)) \o <<"-">> \o UdidFrom(c, Tail(groups))

U1 == UdidFrom("A", UdidGroups)
U2 == UdidFrom("B", UdidGroups)
\* an identifier in lower-case hexadecimal digits
U3 == UdidFrom("c", UdidGroups)
U1Lower == UdidFrom("a", UdidGroups)
U4 == UdidFrom("D", UdidGroups)

Str_iPhone14 == <<"i","P","h","o","n","e"," ","1","4">>
Str_iPhone14Pro == Str_iPhone14 \o <<" ","P","r","o">>
Str_iphone14 == <<"i","p","h","o","n","e"," ","1","4">>
Str_14Pro == <<"1","4"," ","P","r","o">>
Str_hone14 == <<"h","o","n","e"," ","1","4">>
\* a requested name with leading whitespace
Str_SpaceiPhone14 == <<" ">> \o Str_iPhone14
\* a device name that ends with a parenthesis
Str_iPadGen == <<"i","P","a","d"," ","(","1","0","t","h"," ","g","e","n",")">>
\* the runtime keys of the listing end "SimRuntime.iOS-<major>-<minor>"
Str_RuntimePrefix == <<"S","i","m","R","u","n","t","i","m","e",".","i","O","S","-">>
Str_Runtime164 == Str_RuntimePrefix \o <<"1","6","-","4">>
\* the runtime key older simctl versions print
Str_RuntimeOld164 == <<"i","O","S"," ","1","6",".","4">>
Str_164dot == <<"1","6",".","4">>
Str_164dash == <<"1","6","-","4">>
Str_ios == <<"i","o","s">>

(***************************************************************************)
(* Configuration (src/unnamed/part_002)                                    *)
(***************************************************************************)
\* defaultConfig.simulator
config == [simulator |-> [defaultDevice |-> Str_iPhone14,
                          defaultOS |-> Str_164dot]]

\* a JavaScript value is [value |-> v]; undefined, which is also what reading
\* a missing key gives, is Undefined
Undefined == [undefined |-> TRUE]

V(v) == [value |-> v]

\* the decimal digits parseInt reads
DigitValue == [c \in Digits |->
                 CASE c = "0" -> 0 [] c = "1" -> 1 [] c = "2" -> 2 [] c = "3" -> 3
                   [] c = "4" -> 4 [] c = "5" -> 5 [] c = "6" -> 6 [] c = "7" -> 7
                   [] c = "8" -> 8 [] c = "9" -> 9]

\* the value of the leading decimal digits of s, continuing from acc
RECURSIVE parseDigits(_, _)
parseDigits(s, acc) ==
    IF s = << >> \/ Head(s) \notin Digits THEN acc
    ELSE parseDigits(Tail(s), 10 * acc + DigitValue[Head(s)])

\* parseInt(s, 10) of an unsigned string: NaN when no digit leads it
parseInt(s) ==
    LET t == trimStart(s)
    IN  IF t = << >> \/ Head(t) \notin Digits THEN V("NaN") ELSE V(parseDigits(t, 0))

\* process.env.X ? parseInt(process.env.X, 10) : undefined
parseIntIfSet(variable) ==
    IF variable = Undefined \/ variable.value = << >> THEN Undefined
    ELSE parseInt(variable.value)

Str_localhost == <<"l","o","c","a","l","h","o","s","t">>
Str_info == <<"i","n","f","o">>

\* const defaultConfig
defaultConfig ==
    [simulator |-> [defaultDevice |-> V(Str_iPhone14),
                    defaultOS |-> V(Str_164dot),
                    timeout |-> V(30000)],
     mcp |-> [port |-> V(8080), logLevel |-> V(Str_info)],
     server |-> [host |-> V(Str_localhost), port |-> V(3001)]]

\* const envConfig, from the environment `env` of the process
envConfig(env) ==
    [simulator |-> [defaultDevice |-> env.SIMULATOR_DEFAULT_DEVICE,
                    defaultOS |-> env.SIMULATOR_DEFAULT_OS,
                    timeout |-> parseIntIfSet(env.SIMULATOR_TIMEOUT)],
     mcp |-> [port |-> parseIntIfSet(env.MCP_PORT),
              logLevel |-> env.MCP_LOG_LEVEL],
     server |-> [host |-> env.SERVER_HOST,
                 port |-> parseIntIfSet(env.SERVER_PORT)]]

\* cleanConfig(obj): the undefined keys of each nested object are dropped,
\* and a nested object left without a key is dropped itself
cleanConfig(obj) ==
    [key \in DOMAIN obj |->
        IF \A nested \in DOMAIN obj[key] : obj[key][nested] = Undefined
        THEN Undefined
        ELSE obj[key]]

\* { ...defaultConfig, ...fileConfig, ...cleanedEnvConfig }: each top-level
\* key is taken whole from the last object that has it
mergeConfig(defaults, fileConfig, cleanedEnvConfig) ==
    [key \in DOMAIN defaults |->
        IF cleanedEnvConfig[key] # Undefined THEN cleanedEnvConfig[key]
        ELSE IF fileConfig[key] # Undefined THEN fileConfig[key]
        ELSE defaults[key]]

\* the config object the module exports for an environment and a config.json
loadConfig(env, fileConfig) ==
    mergeConfig(defaultConfig, fileConfig, cleanConfig(envConfig(env)))

(***************************************************************************)
(* Device enumeration                                                      *)
(***************************************************************************)
\* one device of the JSON listing of `xcrun simctl list devices -j`;
\* isAvailable is "true", "false" or "absent" (the key is missing)
RawDevice(udid, name, state, runtime, avail) ==
    [udid |-> udid, name |-> name, state |-> state, runtime |-> runtime,
     isAvailable |-> avail]

\* the SimulatorInfo pushed for one listed device
SimulatorInfo(device) ==
    [udid |-> device.udid, name |-> device.name, state |-> device.state,
     runtime |-> device.runtime, isAvailable |-> device.isAvailable # "false"]

\* getAllSimulators without its catch: a failed listing is rethrown
getAllSimulatorsRethrowing(listing, execOk) ==
    IF execOk
    THEN [threw |-> FALSE, value |-> [i \in DOMAIN listing |-> SimulatorInfo(listing[i])]]
    ELSE [threw |-> TRUE, value |-> << >>]

\* getAllSimulators: the parsed listing, or [] when exec or JSON.parse throws;
\* the method itself never throws
getAllSimulators(listing, execOk) ==
    IF execOk
    THEN [threw |-> FALSE, value |-> [i \in DOMAIN listing |-> SimulatorInfo(listing[i])]]
    ELSE [threw |-> FALSE, value |-> << >>]

\* getBootedSimulators without its catch: a failed enumeration is rethrown
getBootedSimulatorsRethrowing(listing, execOk) ==
    IF execOk
    THEN [threw |-> FALSE,
          value |-> {listing[i].udid : i \in {j \in DOMAIN listing :
                                                 listing[j].state = "Booted"}}]
    ELSE [threw |-> TRUE, value |-> {}]

\* the udids of getBootedSimulators: the enumeration filtered on state 'Booted'
getBootedSimulators(listing, execOk) ==
    LET all == getAllSimulators(listing, execOk)
    IN  IF all.threw
        THEN [threw |-> FALSE, value |-> {}]
        ELSE [threw |-> FALSE,
              value |-> {all.value[i].udid : i \in {j \in DOMAIN all.value :
                                                     all.value[j].state = "Booted"}}]

\* what a caller of getBootedSimulators sees of `udid` in its result
BootedOutcome(bootedSimulators, udid) ==
    IF bootedSimulators.threw THEN "rejected"
    ELSE IF udid \in bootedSimulators.value THEN "present" ELSE "absent"

(***************************************************************************)
(* Device resolver                                                         *)
(***************************************************************************)
\* Array.prototype.find as an index: the first index i with hit[i], or 0 for
\* undefined
RECURSIVE FindFrom(_, _)
FindFrom(hit, i) ==
    IF i > Len(hit) THEN 0
    ELSE IF hit[i] THEN i
    ELSE FindFrom(hit, i + 1)

FindIndex(hit) == FindFrom(hit, 1)

\* versionMatch of the three tiers
versionMatch(sim, platformVersion) ==
    \/ Falsy(platformVersion)
    \/ includes(sim.runtime, platformVersion)
    \/ includes(toLowerCase(sim.runtime), toLowerCase(platformVersion))

\* findExactNameMatch without the test of sim.isAvailable
exactNameAcceptsAnyAvailability(sim, deviceName, platformVersion) ==
    /\ toLowerCase(sim.name) = toLowerCase(deviceName)
    /\ versionMatch(sim, platformVersion)

\* the predicate of findExactNameMatch
exactNameAccepts(sim, deviceName, platformVersion) ==
    /\ sim.isAvailable
    /\ toLowerCase(sim.name) = toLowerCase(deviceName)
    /\ versionMatch(sim, platformVersion)

\* the literal characters of modelPattern, the RegExp findWordBoundaryMatch
\* builds from the normalised and escaped device name
modelPattern(deviceName) ==
    LET normalizedDeviceName == trim(collapseWhitespace(toLowerCase(deviceName)))
        escapedDeviceName == escapeRegExp(normalizedDeviceName)
    IN  regexLiterals(escapedDeviceName)

\* the predicate of findWordBoundaryMatch
wordBoundaryAccepts(sim, pattern, platformVersion) ==
    /\ sim.isAvailable
    /\ wordBoundaryTest(pattern, toLowerCase(sim.name))
    /\ versionMatch(sim, platformVersion)

\* the predicate of findSubstringMatch
substringAccepts(sim, deviceName, platformVersion) ==
    /\ sim.isAvailable
    /\ includes(toLowerCase(sim.name), toLowerCase(deviceName))
    /\ versionMatch(sim, platformVersion)

findExactNameMatch(simulators, deviceName, platformVersion) ==
    FindIndex([i \in DOMAIN simulators |->
                  exactNameAccepts(simulators[i], deviceName, platformVersion)])

findWordBoundaryMatch(simulators, deviceName, platformVersion) ==
    LET pattern == modelPattern(deviceName)
    IN  FindIndex([i \in DOMAIN simulators |->
                      wordBoundaryAccepts(simulators[i], pattern, platformVersion)])

findSubstringMatch(simulators, deviceName, platformVersion) ==
    FindIndex([i \in DOMAIN simulators |->
                  substringAccepts(simulators[i], deviceName, platformVersion)])

\* the direct lookup comparing the wrong field: sim.name === deviceName
findUdidMatchByName(simulators, deviceName) ==
    IF isUdidSyntax(deviceName)
    THEN LET i == FindIndex([k \in DOMAIN simulators |-> simulators[k].name = deviceName])
         IN  IF i # 0 /\ simulators[i].isAvailable THEN i ELSE 0
    ELSE 0

\* the direct lookup of createSession: simulators.find(sim => sim.udid === deviceName)
\* when deviceName has UDID syntax, kept only if that device is available
findUdidMatch(simulators, deviceName) ==
    IF isUdidSyntax(deviceName)
    THEN LET i == FindIndex([k \in DOMAIN simulators |-> simulators[k].udid = deviceName])
         IN  IF i # 0 /\ simulators[i].isAvailable THEN i ELSE 0
    ELSE 0

\* createSession trying the word-boundary tier before the exact tier
resolveDeviceWordBoundaryFirst(simulators, deviceName, platformVersion) ==
    LET u  == findUdidMatch(simulators, deviceName)
        t1 == findExactNameMatch(simulators, deviceName, platformVersion)
        t2 == findWordBoundaryMatch(simulators, deviceName, platformVersion)
        t3 == findSubstringMatch(simulators, deviceName, platformVersion)
    IN  IF u # 0 THEN [tier |-> "udid", index |-> u]
        ELSE IF t2 # 0 THEN [tier |-> "wordBoundary", index |-> t2]
        ELSE IF t1 # 0 THEN [tier |-> "exact", index |-> t1]
        ELSE IF t3 # 0 THEN [tier |-> "substring", index |-> t3]
        ELSE [tier |-> "none", index |-> 0]

\* the device createSession selects: the tier that produced it and its index
\* in the enumeration (tier "none", index 0: the Error is thrown)
resolveDevice(simulators, deviceName, platformVersion) ==
    LET u  == findUdidMatch(simulators, deviceName)
        t1 == findExactNameMatch(simulators, deviceName, platformVersion)
        t2 == findWordBoundaryMatch(simulators, deviceName, platformVersion)
        t3 == findSubstringMatch(simulators, deviceName, platformVersion)
    IN  IF u # 0 THEN [tier |-> "udid", index |-> u]
        ELSE IF t1 # 0 THEN [tier |-> "exact", index |-> t1]
        ELSE IF t2 # 0 THEN [tier |-> "wordBoundary", index |-> t2]
        ELSE IF t3 # 0 THEN [tier |-> "substring", index |-> t3]
        ELSE [tier |-> "none", index |-> 0]

(***************************************************************************)
(* Bounds of the model                                                     *)
(***************************************************************************)
\* how many session ids uuidv4 is asked for in one run
MaxIds == 2
\* the largest value the wall clock reaches
MaxClock == 1
\* how many devices a platform listing of the resolver specification holds
MaxDevices == 2
\* how many times shutdownGracefully is called in one run
MaxSignals == 3

(***************************************************************************)
(* State                                                                   *)
(***************************************************************************)
VARIABLES
    listing,      \* the platform's devices, in the order simctl lists them
    sessions,     \* this.sessions: session id -> SimulatorSession
    uuidsIssued,  \* how many ids uuidv4 has produced
    now,          \* the wall clock read by new Date()
    calls,        \* the asynchronous calls in flight, one slot per caller
    created,      \* per session ever created: the inputs, the enumeration and the device of its createSession
    lastCall,     \* the most recent createSession / getSession / getAllSessions call and its result
    requests,     \* the createSession options the callers of this run pass
    process       \* the Node process: its environment and config.json, the exported config, the state of the shutdown module

vars == <<listing, sessions, uuidsIssued, now, calls, created, lastCall, requests, process>>

\* an environment that sets none of the variables the config module reads
NoEnv ==
    [SIMULATOR_DEFAULT_DEVICE |-> Undefined, SIMULATOR_DEFAULT_OS |-> Undefined,
     SIMULATOR_TIMEOUT |-> Undefined, MCP_PORT |-> Undefined,
     MCP_LOG_LEVEL |-> Undefined, SERVER_HOST |-> Undefined,
     SERVER_PORT |-> Undefined]

\* let fileConfig = {}: no config.json, or one that could not be parsed
NoFile == [simulator |-> Undefined, mcp |-> Undefined, server |-> Undefined]

\* the process before the config module is evaluated and before any call of
\* shutdownGracefully: let isShuttingDown = false
ProcessStart(env, fileConfig) ==
    [env |-> env,
     fileConfig |-> fileConfig,
     config |-> Undefined,
     isShuttingDown |-> FALSE,
     shutdownCalls |-> << >>,
     pending |-> "none",
     exited |-> FALSE]

\* the callers whose asynchronous calls interleave
Procs == {1, 2}

\* an id derived from the size of the map instead of a fresh one
uuidv4FromMapSize == Cardinality(DOMAIN sessions) + 1

\* uuidv4(): a value that no earlier call returned
uuidv4 == uuidsIssued + 1

\* new Date(): the clock never runs backwards between two reads
ClockReads(t) == t..MaxClock

\* the session literal with the device's name stored as its udid
SimulatorSessionNameAsUdid(id, matchingSimulator, createdAt, lastUsedAt) ==
    [id |-> id,
     udid |-> matchingSimulator.name,
     deviceName |-> matchingSimulator.name,
     platformVersion |-> matchingSimulator.runtime,
     createdAt |-> createdAt,
     lastUsedAt |-> lastUsedAt]

\* the session literal of createSessionFromSimulator
SimulatorSession(id, matchingSimulator, createdAt, lastUsedAt) ==
    [id |-> id,
     udid |-> matchingSimulator.udid,
     deviceName |-> matchingSimulator.name,
     platformVersion |-> matchingSimulator.runtime,
     createdAt |-> createdAt,
     lastUsedAt |-> lastUsedAt]

\* this.sessions.set(session.id, session)
MapSet(map, key, value) ==
    [k \in DOMAIN map \cup {key} |-> IF k = key THEN value ELSE map[k]]

\* this.sessions.delete(sessionId): no effect when the key is absent
MapDelete(map, key) == [k \in DOMAIN map \ {key} |-> map[k]]

\* getAllSessions: Array.from(this.sessions.values())
getAllSessions == {sessions[k] : k \in DOMAIN sessions}

\* a caller's slot: the method called, where the call is suspended, its
\* argument (sessionId, or udid for bootByUDID), the session it read from
\* the map (0: undefined), whether
\* shutdownSimulator runs inside terminateSession, what shutdownSimulator
\* returned to terminateSession, and the value returned; when the caller's
\* collaborators are observed, `effects` lists what the call has awaited
\* from the device handle, the simctl command line and the enumeration, in
\* the order it settled
IdleCall == [op |-> "none", pc |-> "idle", sessionId |-> 0, session |-> 0,
             nested |-> FALSE, shutdownResult |-> "none", result |-> "none",
             observed |-> FALSE, effects |-> << >>, udid |-> << >>]

\* one settled interaction with a collaborator: `kind` is "handle" (the
\* appium-ios-simulator object), "factory" (getSimulator), "cli" (xcrun
\* simctl), "enumeration" (getAllSimulators / getBootedSimulators) or
\* "method" (a method of the manager awaited by another one)
Effect(kind, action, outcome) == [kind |-> kind, action |-> action, outcome |-> outcome]

\* the call after `effect` settled
Observe(call, effect) ==
    IF call.observed THEN [call EXCEPT !.effects = Append(@, effect)] ELSE call

NoCall == [op |-> "none"]

\* the state after the constructor, on a platform that lists `devices`, with
\* callers that pass the options `optionSet`
InitWith(devices, optionSet) ==
    /\ listing = devices
    /\ requests = optionSet
    /\ sessions = << >>
    /\ uuidsIssued = 0
    /\ now = 0
    /\ calls = [p \in Procs |-> IdleCall]
    /\ created = << >>
    /\ lastCall = NoCall
    /\ process = ProcessStart(NoEnv, NoFile)

(***************************************************************************)
(* createSession, getSession, getAllSessions                               *)
(***************************************************************************)
\* createSessionFromSimulator storing the record before the handle is acquired
createSessionFromSimulatorStoreFirst(matchingSimulator, handleOk, createdAt, lastUsedAt) ==
    [threw |-> ~handleOk,
     id |-> IF handleOk THEN uuidv4 ELSE 0,
     sessions |-> MapSet(sessions, uuidv4,
                         SimulatorSession(uuidv4, matchingSimulator, createdAt, lastUsedAt))]

\* createSessionFromSimulator: the registry after the call; getSimulator(udid)
\* rejecting leaves it as it was and the error is rethrown
createSessionFromSimulator(matchingSimulator, handleOk, createdAt, lastUsedAt) ==
    IF handleOk
    THEN [threw |-> FALSE,
          id |-> uuidv4,
          sessions |-> MapSet(sessions, uuidv4,
                              SimulatorSession(uuidv4, matchingSimulator, createdAt, lastUsedAt))]
    ELSE [threw |-> TRUE, id |-> 0, sessions |-> sessions]

\* const deviceName = options.deviceName || config.simulator.defaultDevice
requestedDevice(options) ==
    IF Falsy(options.deviceName) THEN config.simulator.defaultDevice ELSE options.deviceName

\* const platformVersion = options.platformVersion || config.simulator.defaultOS
requestedVersion(options) ==
    IF Falsy(options.platformVersion) THEN config.simulator.defaultOS
    ELSE options.platformVersion

\* the selection of createSession(options) among the enumerated simulators
selectSimulator(options, simulators) ==
    resolveDevice(simulators, requestedDevice(options), requestedVersion(options))

\* the part of createSession(options) that follows the selection `match`
\* among the enumerated `simulators`: the handle is acquired or not
\* (handleOk) and the clock is read twice
createSession(options, simulators, match, handleOk, t1, t2) ==
    LET outcome == IF match.index = 0
                   THEN [threw |-> TRUE, id |-> 0, sessions |-> sessions]
                   ELSE createSessionFromSimulator(simulators[match.index], handleOk, t1, t2)
        inputs == [deviceName |-> requestedDevice(options),
                   platformVersion |-> requestedVersion(options),
                   simulators |-> simulators,
                   udid |-> IF match.index = 0 THEN << >> ELSE simulators[match.index].udid]
    IN  /\ sessions' = outcome.sessions
        /\ uuidsIssued' = IF outcome.threw THEN uuidsIssued ELSE uuidsIssued + 1
        /\ now' = IF outcome.threw THEN now ELSE t2
        /\ created' = IF outcome.threw THEN created
                      ELSE MapSet(created, outcome.id, inputs)
        /\ lastCall' = [op |-> "createSession",
                        options |-> options,
                        deviceName |-> requestedDevice(options),
                        platformVersion |-> requestedVersion(options),
                        simulators |-> simulators,
                        tier |-> match.tier,
                        selected |-> match.index,
                        handle |-> IF match.index = 0 THEN "notAsked"
                                   ELSE IF handleOk THEN "acquired" ELSE "rejected",
                        threw |-> outcome.threw,
                        id |-> outcome.id]
        /\ UNCHANGED <<listing, calls, requests, process>>

\* createSession(options): the enumeration succeeds or fails (execOk)
CreateSession ==
    /\ uuidsIssued < MaxIds
    /\ \E options \in requests, execOk \in BOOLEAN :
        LET simulators == getAllSimulators(listing, execOk).value
            match == selectSimulator(options, simulators)
        IN  \E handleOk \in BOOLEAN :
                \E t1 \in ClockReads(now) : \E t2 \in ClockReads(t1) :
                    createSession(options, simulators, match, handleOk, t1, t2)

\* getSession that restarts the record: createdAt is refreshed as well
getSessionRefreshingCreatedAt(sessionId, t) ==
    /\ IF sessionId \in DOMAIN sessions
       THEN /\ sessions' = [sessions EXCEPT ![sessionId].lastUsedAt = t,
                                            ![sessionId].createdAt = t]
            /\ now' = t
            /\ lastCall' = [op |-> "getSession", sessionId |-> sessionId,
                            returned |-> sessionId]
       ELSE /\ UNCHANGED <<sessions, now>>
            /\ lastCall' = [op |-> "getSession", sessionId |-> sessionId,
                            returned |-> 0]
    /\ UNCHANGED <<listing, uuidsIssued, calls, created, requests, process>>

\* getSession(sessionId): the record of the map itself (returned: the key it
\* is stored under), its lastUsedAt refreshed, or undefined (returned: 0)
getSession(sessionId, t) ==
    /\ IF sessionId \in DOMAIN sessions
       THEN /\ sessions' = [sessions EXCEPT ![sessionId].lastUsedAt = t]
            /\ now' = t
            /\ lastCall' = [op |-> "getSession", sessionId |-> sessionId,
                            returned |-> sessionId]
       ELSE /\ UNCHANGED <<sessions, now>>
            /\ lastCall' = [op |-> "getSession", sessionId |-> sessionId,
                            returned |-> 0]
    /\ UNCHANGED <<listing, uuidsIssued, calls, created, requests, process>>

GetSession ==
    \E sessionId \in 1..MaxIds : \E t \in ClockReads(now) : getSession(sessionId, t)

(***************************************************************************)
(* The platforms and the requests of the specifications                    *)
(***************************************************************************)
PoolNames == <<Str_iPhone14, Str_iPhone14Pro, Str_iPhone14, Str_iPadGen>>
PoolUdids == <<U1, U2, U3, U4>>
PoolRuntimes == <<Str_Runtime164, Str_Runtime164, Str_RuntimeOld164, Str_Runtime164>>
\* the values of the isAvailable key each pool device is listed with
PoolAvailability == <<{"true", "false"}, {"absent", "false"}, {"true", "false"},
                      {"true", "false"}>>

PoolDevice(k, avail) ==
    RawDevice(PoolUdids[k], PoolNames[k], "Shutdown", PoolRuntimes[k], avail)

\* the orders in which at most MaxDevices distinct pool devices are listed:
\* the listing is read runtime by runtime, so the devices of one runtime are
\* adjacent
PoolOrders ==
    UNION {{o \in [1..n -> DOMAIN PoolUdids] :
                /\ \A i, j \in 1..n : i # j => o[i] # o[j]
                /\ \A i, j, k \in 1..n :
                        (i < j /\ j < k /\ PoolRuntimes[o[i]] = PoolRuntimes[o[k]])
                        => PoolRuntimes[o[j]] = PoolRuntimes[o[i]]}
           : n \in 0..(IF MaxDevices < Len(PoolUdids) THEN MaxDevices ELSE Len(PoolUdids))}

\* the listings of at most MaxDevices distinct pool devices, in every order
MatchListings ==
    UNION {{[i \in DOMAIN order |-> PoolDevice(order[i], avail[i])] :
                avail \in {a \in [DOMAIN order -> {"true", "false", "absent"}] :
                              \A i \in DOMAIN order : a[i] \in PoolAvailability[order[i]]}}
           : order \in PoolOrders}

Options(deviceName, platformVersion) ==
    [deviceName |-> deviceName, platformVersion |-> platformVersion]

MatchNames == {<< >>, Str_iPhone14, Str_iphone14, Str_14Pro, Str_hone14, U1, U1Lower, U3,
               Str_SpaceiPhone14, Str_iPadGen}
MatchVersions == {<< >>, Str_164dash, Str_ios}
MatchRequests ==
    {Options(n, v) : n \in MatchNames, v \in MatchVersions}
        \cup {Options(Str_iPhone14, Str_164dot), Options(Str_14Pro, Str_164dot)}

(***************************************************************************)
(* The platform and the device handles                                     *)
(***************************************************************************)
\* the listing after the device `udid` went to `state`
SetDeviceState(devices, udid, state) ==
    [i \in DOMAIN devices |->
        IF devices[i].udid = udid THEN [devices[i] EXCEPT !.state = state] ELSE devices[i]]

\* the state the platform reports for `udid` ("Absent": it lists no such device)
DeviceState(devices, udid) ==
    IF \E i \in DOMAIN devices : devices[i].udid = udid
    THEN devices[CHOOSE i \in DOMAIN devices : devices[i].udid = udid].state
    ELSE "Absent"

\* another owner of a device (the by-UDID tools, the user) boots it or shuts it down
PlatformChange ==
    \E i \in DOMAIN listing, state \in {"Booted", "Shutdown"} :
        /\ listing[i].state # state
        /\ listing' = [listing EXCEPT ![i].state = state]
        /\ UNCHANGED <<sessions, uuidsIssued, now, calls, created, lastCall, requests, process>>

(***************************************************************************)
(* directShutdownByUDID, verifySimulatorShutdown                           *)
(***************************************************************************)
\* directShutdownByUDID: true when `xcrun simctl shutdown` completed, false
\* when it failed; the rejection is caught
directShutdownByUDID(execOk) == [threw |-> FALSE, value |-> execOk]

\* verifySimulatorShutdown returning stillRunning itself
verifySimulatorShutdownInverted(udid, devices, execOk) ==
    [threw |-> FALSE, value |-> udid \in getBootedSimulators(devices, execOk).value]

\* verifySimulatorShutdown that does not look at the booted simulators
verifySimulatorShutdownUnchecked(udid, devices, execOk) ==
    [threw |-> FALSE, value |-> TRUE]

\* verifySimulatorShutdown(udid): the udid is not among the booted simulators
verifySimulatorShutdown(udid, devices, execOk) ==
    LET bootedSimulators == getBootedSimulators(devices, execOk)
    IN  IF bootedSimulators.threw
        THEN [threw |-> FALSE, value |-> FALSE]
        ELSE [threw |-> FALSE, value |-> udid \notin bootedSimulators.value]

(***************************************************************************)
(* The asynchronous calls: terminateSession and shutdownSimulator.  A call *)
(* runs from one await to the next in one step; between two steps of a     *)
(* call the steps of the other caller and of the platform interleave.      *)
(***************************************************************************)
CanStart(p) == calls[p].pc \in {"idle", "done"}

Returned(call, result) ==
    [op |-> call.op, pc |-> "done", sessionId |-> call.sessionId,
     session |-> call.session, nested |-> FALSE,
     shutdownResult |-> IF call.op = "terminateSession" THEN call.shutdownResult ELSE "none",
     result |-> result,
     observed |-> call.observed, effects |-> call.effects, udid |-> call.udid]

\* session.udid of the session a call holds: the record the call read from
\* the map, which stays bound to its device after the map entry is deleted
HeldUdid(call) == created[call.session].udid

\* shutdownSimulator that awaits the handle's shutdown without looking the
\* session up again
enterShutdownSimulatorNoLookup(call, nested) ==
    [call EXCEPT !.pc = "apiShutdown", !.nested = nested,
                 !.session = call.sessionId]

\* the synchronous head of shutdownSimulator(sessionId), up to the await of
\* session.simulator.shutdown(); `nested` when terminateSession awaits it
enterShutdownSimulator(call, nested) ==
    IF call.sessionId \notin DOMAIN sessions
    THEN IF nested
         THEN [call EXCEPT !.pc = "afterShutdown", !.shutdownResult = "false"]
         ELSE Returned(call, "false")
    ELSE [call EXCEPT !.pc = "apiShutdown", !.nested = nested,
                      !.session = call.sessionId]

\* shutdownSimulator returns `result`: to its caller, or into the await of
\* terminateSession
leaveShutdownSimulator(call, result) ==
    IF call.nested
    THEN [call EXCEPT !.pc = "afterShutdown", !.shutdownResult = result]
    ELSE Returned(call, result)

\* terminateSession deleting the record only when the shutdown did not fail
finishTerminateUnlessShutdownFailed(sessionId, shutdownResult) ==
    IF shutdownResult = "false"
    THEN [sessions |-> sessions, result |-> "false"]
    ELSE [sessions |-> MapDelete(sessions, sessionId), result |-> "true"]

\* terminateSession releasing the device: every record bound to the udid of
\* the session is deleted
finishTerminateReleasingDevice(sessionId, shutdownResult) ==
    [sessions |-> [k \in {j \in DOMAIN sessions :
                              sessions[j].udid # created[sessionId].udid} |-> sessions[k]],
     result |-> "true"]

\* terminateSession returning what shutdownSimulator returned
finishTerminateReportingShutdown(sessionId, shutdownResult) ==
    [sessions |-> MapDelete(sessions, sessionId),
     result |-> IF shutdownResult = "false" THEN "false" ELSE "true"]

\* the end of terminateSession's try block: this.sessions.delete(sessionId);
\* return true, whatever shutdownSimulator returned
finishTerminate(sessionId, shutdownResult) ==
    [sessions |-> MapDelete(sessions, sessionId), result |-> "true"]

\* terminateSession that shuts the device down whatever isRunning is
afterIsRunningAlwaysShutdown(p, call, isRunning) ==
    /\ calls' = [calls EXCEPT ![p] =
                    enterShutdownSimulator(
                        Observe(call, Effect("method", "shutdownSimulator", "called")),
                        TRUE)]
    /\ UNCHANGED sessions

\* terminateSession of caller p, its call record being `call`, once
\* isRunning is known
afterIsRunning(p, call, isRunning) ==
    IF isRunning
    THEN /\ calls' = [calls EXCEPT ![p] =
                        enterShutdownSimulator(
                            Observe(call, Effect("method", "shutdownSimulator", "called")),
                            TRUE)]
         /\ UNCHANGED sessions
    ELSE LET end == finishTerminate(call.sessionId, "none")
         IN  /\ sessions' = end.sessions
             /\ calls' = [calls EXCEPT ![p] = Returned(call, end.result)]

NewCall(op, sessionId) ==
    [op |-> op, pc |-> "start", sessionId |-> sessionId, session |-> 0,
     nested |-> FALSE, shutdownResult |-> "none", result |-> "none",
     observed |-> FALSE, effects |-> << >>, udid |-> << >>]

\* the record of a call that caller p starts
StartCall(p, op, sessionId) ==
    [NewCall(op, sessionId) EXCEPT !.observed = calls[p].observed]

\* terminateSession(sessionId) up to the await of session.simulator.stat()
TerminateSession(p, sessionId) ==
    /\ CanStart(p)
    /\ calls' = [calls EXCEPT ![p] =
                    IF sessionId \notin DOMAIN sessions
                    THEN Returned(StartCall(p, "terminateSession", sessionId), "false")
                    ELSE [StartCall(p, "terminateSession", sessionId) EXCEPT
                             !.pc = "stat", !.session = sessionId]]
    /\ UNCHANGED <<listing, sessions, uuidsIssued, now, created, lastCall, requests, process>>

\* session.simulator.stat() settles: it resolves with the device's state, or
\* rejects and the booted simulators are enumerated instead
StatSettles(p) ==
    /\ calls[p].pc = "stat"
    /\ \E statOk \in BOOLEAN :
        IF statOk /\ DeviceState(listing, HeldUdid(calls[p])) # "Absent"
        THEN LET state == DeviceState(listing, HeldUdid(calls[p]))
             IN  afterIsRunning(p, Observe(calls[p], Effect("handle", "stat", state)),
                                state = "Booted")
        ELSE /\ calls' = [calls EXCEPT ![p] =
                            [Observe(calls[p], Effect("handle", "stat", "rejected"))
                                EXCEPT !.pc = "statFallback"]]
             /\ UNCHANGED sessions
    /\ UNCHANGED <<listing, uuidsIssued, now, created, lastCall, requests, process>>

\* the getBootedSimulators() of the statError handler settles; a rejection
\* would reach the outer catch: return false, the record kept
StatFallbackSettles(p) ==
    /\ calls[p].pc = "statFallback"
    /\ \E execOk \in BOOLEAN :
        LET bootedSimulators == getBootedSimulators(listing, execOk)
            seen == Observe(calls[p],
                            Effect("enumeration", "getBootedSimulators",
                                   BootedOutcome(bootedSimulators, HeldUdid(calls[p]))))
        IN  IF bootedSimulators.threw
            THEN /\ calls' = [calls EXCEPT ![p] = Returned(seen, "false")]
                 /\ UNCHANGED sessions
            ELSE afterIsRunning(p, seen, HeldUdid(calls[p]) \in bootedSimulators.value)
    /\ UNCHANGED <<listing, uuidsIssued, now, created, lastCall, requests, process>>

\* terminateSession resumes after `await this.shutdownSimulator(sessionId)`
TerminateResumes(p) ==
    /\ calls[p].pc = "afterShutdown"
    /\ LET end == finishTerminate(calls[p].sessionId, calls[p].shutdownResult)
       IN  /\ sessions' = end.sessions
           /\ calls' = [calls EXCEPT ![p] = Returned(calls[p], end.result)]
    /\ UNCHANGED <<listing, uuidsIssued, now, created, lastCall, requests, process>>

\* shutdownSimulator(sessionId) called by a client
ShutdownSimulator(p, sessionId) ==
    /\ CanStart(p)
    /\ calls' = [calls EXCEPT ![p] =
                    enterShutdownSimulator(StartCall(p, "shutdownSimulator", sessionId), FALSE)]
    /\ UNCHANGED <<listing, sessions, uuidsIssued, now, created, lastCall, requests, process>>

\* session.simulator.shutdown() settles: it resolves with the device stopped
\* or still booted, or rejects and directShutdownByUDID is awaited
ApiShutdownSettles(p) ==
    /\ calls[p].pc = "apiShutdown"
    /\ \E outcome \in {"stopped", "unchanged", "rejected"} :
        /\ listing' = IF outcome = "stopped"
                      THEN SetDeviceState(listing, HeldUdid(calls[p]), "Shutdown")
                      ELSE listing
        /\ calls' = [calls EXCEPT ![p] =
                        [Observe(calls[p],
                                 Effect("handle", "shutdown",
                                        IF outcome = "rejected" THEN "rejected" ELSE "resolved"))
                            EXCEPT !.pc = IF outcome = "rejected" THEN "cliFallback"
                                          ELSE "verify"]]
    /\ UNCHANGED <<sessions, uuidsIssued, now, created, lastCall, requests, process>>

\* a directShutdownByUDID(session.udid) settles: the one of the innerError
\* handler (cliFallback) or the one after the failed verification (cliRetry)
DirectShutdownSettles(p) ==
    /\ calls[p].pc \in {"cliFallback", "cliRetry"}
    /\ \E execOk \in BOOLEAN :
        LET done == directShutdownByUDID(execOk)
            seen == Observe(calls[p],
                            Effect("cli", "shutdown",
                                   IF execOk THEN "resolved" ELSE "rejected"))
        IN  /\ listing' = IF execOk
                          THEN SetDeviceState(listing, HeldUdid(calls[p]), "Shutdown")
                          ELSE listing
            /\ calls' = [calls EXCEPT ![p] =
                            IF done.threw
                            THEN leaveShutdownSimulator(seen, "false")
                            ELSE [seen EXCEPT !.pc =
                                     IF calls[p].pc = "cliFallback"
                                     THEN "verify" ELSE "verifyRetry"]]
    /\ UNCHANGED <<sessions, uuidsIssued, now, created, lastCall, requests, process>>

\* a verifySimulatorShutdown(session.udid) settles: the first one (verify) or
\* the one after the second directShutdownByUDID (verifyRetry)
VerifySettles(p) ==
    /\ calls[p].pc \in {"verify", "verifyRetry"}
    /\ \E execOk \in BOOLEAN :
        LET verifySuccess == verifySimulatorShutdown(HeldUdid(calls[p]), listing, execOk)
            seen == Observe(calls[p],
                            Effect("enumeration", "getBootedSimulators",
                                   BootedOutcome(getBootedSimulators(listing, execOk),
                                                 HeldUdid(calls[p]))))
        IN  calls' = [calls EXCEPT ![p] =
                IF verifySuccess.threw
                THEN leaveShutdownSimulator(seen, "false")
                ELSE IF verifySuccess.value
                THEN leaveShutdownSimulator(seen, "true")
                ELSE IF calls[p].pc = "verify"
                THEN [seen EXCEPT !.pc = "cliRetry"]
                ELSE leaveShutdownSimulator(seen, "false")]
    /\ UNCHANGED <<listing, sessions, uuidsIssued, now, created, lastCall, requests, process>>

(***************************************************************************)
(* The methods that delegate to one action of the device handle:           *)
(* bootSimulator, installApp, launchApp, terminateApp, getScreenshot,      *)
(* performTap                                                              *)
(***************************************************************************)
\* the action of session.simulator each method awaits
HandleAction ==
    [bootSimulator |-> "run",
     installApp    |-> "installApp",
     launchApp     |-> "launchApp",
     terminateApp  |-> "terminateApp",
     getScreenshot |-> "getScreenshot",
     performTap    |-> "spawnProcess"]

\* what a method returns when the session is missing or the handle rejects
failureValue(op) == IF op = "getScreenshot" THEN "null" ELSE "false"

\* what a method returns when the handle resolves
successValue(op) == IF op = "getScreenshot" THEN "screenshot" ELSE "true"

\* a delegating method that awaits the handle without looking the session up
sessionMethodEntryNoLookup(call) ==
    [call EXCEPT !.pc = "handleAction", !.session = call.sessionId]

\* the head of a delegating method: the lookup of the session, then the
\* await of the handle's action
sessionMethodEntry(call) ==
    IF call.sessionId \notin DOMAIN sessions
    THEN Returned(call, failureValue(call.op))
    ELSE [call EXCEPT !.pc = "handleAction", !.session = call.sessionId]

\* the awaited action without try / catch: a rejection reaches the caller
sessionMethodReturnUncaught(op, handleOk) ==
    IF handleOk THEN successValue(op) ELSE "threw"

\* the awaited action with its rejection ignored
sessionMethodReturnIgnoringError(op, handleOk) == successValue(op)

\* the try / catch around the awaited action
sessionMethodReturn(op, handleOk) ==
    IF handleOk THEN successValue(op) ELSE failureValue(op)

\* caller p calls the delegating method `op`
SessionMethod(p, op, sessionId) ==
    /\ CanStart(p)
    /\ calls' = [calls EXCEPT ![p] = sessionMethodEntry(StartCall(p, op, sessionId))]
    /\ UNCHANGED <<listing, sessions, uuidsIssued, now, created, lastCall, requests, process>>

BootSimulator(p, sessionId) == SessionMethod(p, "bootSimulator", sessionId)

InstallApp(p, sessionId) == SessionMethod(p, "installApp", sessionId)

LaunchApp(p, sessionId) == SessionMethod(p, "launchApp", sessionId)

TerminateApp(p, sessionId) == SessionMethod(p, "terminateApp", sessionId)

GetScreenshot(p, sessionId) == SessionMethod(p, "getScreenshot", sessionId)

PerformTap(p, sessionId) == SessionMethod(p, "performTap", sessionId)

\* the awaited action of the handle settles; a run() that resolves has
\* booted the device or left it as it was
HandleActionSettles(p) ==
    /\ calls[p].pc = "handleAction"
    /\ \E handleOk \in BOOLEAN, boots \in BOOLEAN :
        /\ boots => (handleOk /\ calls[p].op = "bootSimulator")
        /\ listing' = IF boots
                      THEN SetDeviceState(listing, HeldUdid(calls[p]), "Booted")
                      ELSE listing
        /\ calls' = [calls EXCEPT ![p] =
                        Returned(Observe(calls[p],
                                         Effect("handle", HandleAction[calls[p].op],
                                                IF handleOk THEN "resolved" ELSE "rejected")),
                                 sessionMethodReturn(calls[p].op, handleOk))]
    /\ UNCHANGED <<sessions, uuidsIssued, now, created, lastCall, requests, process>>

(***************************************************************************)
(* bootByUDID                                                              *)
(***************************************************************************)
\* bootByUDID that never takes the device for booted
isAlreadyBootedNever(bootedSimulators, udid) == FALSE

\* isAlreadyBooted: bootedSimulators.some(sim => sim.udid === udid)
isAlreadyBooted(bootedSimulators, udid) == udid \in bootedSimulators.value

\* bootByUDID that trusts run() instead of the enumeration
didBootAssumed(newBootedSimulators, udid) == TRUE

\* didBoot: newBootedSimulators.some(sim => sim.udid === udid)
didBoot(newBootedSimulators, udid) == udid \in newBootedSimulators.value

\* bootByUDID(udid) up to the await of getAllSimulators()
BootByUDID(p, udid) ==
    /\ CanStart(p)
    /\ calls' = [calls EXCEPT ![p] =
                    [StartCall(p, "bootByUDID", 0) EXCEPT !.pc = "bootList", !.udid = udid]]
    /\ UNCHANGED <<listing, sessions, uuidsIssued, now, created, lastCall, requests, process>>

\* getAllSimulators() settles: no simulator of that udid, return false
BootListSettles(p) ==
    /\ calls[p].pc = "bootList"
    /\ \E execOk \in BOOLEAN :
        LET allSimulators == getAllSimulators(listing, execOk)
            simulator == FindIndex([i \in DOMAIN allSimulators.value |->
                                        allSimulators.value[i].udid = calls[p].udid])
            seen == Observe(calls[p],
                            Effect("enumeration", "getAllSimulators",
                                   IF allSimulators.threw THEN "rejected"
                                   ELSE IF simulator = 0 THEN "missing" ELSE "found"))
        IN  calls' = [calls EXCEPT ![p] =
                        IF allSimulators.threw \/ simulator = 0
                        THEN Returned(seen, "false")
                        ELSE [seen EXCEPT !.pc = "bootCheck"]]
    /\ UNCHANGED <<listing, sessions, uuidsIssued, now, created, lastCall, requests, process>>

\* the first getBootedSimulators() settles: already booted, return true
BootCheckSettles(p) ==
    /\ calls[p].pc = "bootCheck"
    /\ \E execOk \in BOOLEAN :
        LET bootedSimulators == getBootedSimulators(listing, execOk)
            seen == Observe(calls[p],
                            Effect("enumeration", "getBootedSimulators",
                                   BootedOutcome(bootedSimulators, calls[p].udid)))
        IN  calls' = [calls EXCEPT ![p] =
                        IF bootedSimulators.threw
                        THEN Returned(seen, "false")
                        ELSE IF isAlreadyBooted(bootedSimulators, calls[p].udid)
                        THEN Returned(seen, "true")
                        ELSE [seen EXCEPT !.pc = "bootFactory"]]
    /\ UNCHANGED <<listing, sessions, uuidsIssued, now, created, lastCall, requests, process>>

\* getSimulator(udid) settles; a rejection is caught: return false
BootFactorySettles(p) ==
    /\ calls[p].pc = "bootFactory"
    /\ \E handleOk \in BOOLEAN :
        LET seen == Observe(calls[p],
                            Effect("factory", "getSimulator",
                                   IF handleOk THEN "resolved" ELSE "rejected"))
        IN  calls' = [calls EXCEPT ![p] =
                        IF handleOk THEN [seen EXCEPT !.pc = "bootRun"]
                        ELSE Returned(seen, "false")]
    /\ UNCHANGED <<listing, sessions, uuidsIssued, now, created, lastCall, requests, process>>

\* simulatorInstance.run() settles: resolved, with the device booted or left
\* as it was, or rejected: return false
BootRunSettles(p) ==
    /\ calls[p].pc = "bootRun"
    /\ \E handleOk \in BOOLEAN, boots \in BOOLEAN :
        /\ boots => handleOk
        /\ listing' = IF boots THEN SetDeviceState(listing, calls[p].udid, "Booted")
                      ELSE listing
        /\ LET seen == Observe(calls[p],
                               Effect("handle", "run",
                                      IF handleOk THEN "resolved" ELSE "rejected"))
           IN  calls' = [calls EXCEPT ![p] =
                            IF handleOk THEN [seen EXCEPT !.pc = "bootDelay"]
                            ELSE Returned(seen, "false")]
    /\ UNCHANGED <<sessions, uuidsIssued, now, created, lastCall, requests, process>>

\* the setTimeout of 2000 ms fires
BootDelayElapses(p) ==
    /\ calls[p].pc = "bootDelay"
    /\ calls' = [calls EXCEPT ![p] =
                    [Observe(calls[p], Effect("timer", "setTimeout", "fired"))
                        EXCEPT !.pc = "bootRecheck"]]
    /\ UNCHANGED <<listing, sessions, uuidsIssued, now, created, lastCall, requests, process>>

\* the second getBootedSimulators() settles: return didBoot
BootRecheckSettles(p) ==
    /\ calls[p].pc = "bootRecheck"
    /\ \E execOk \in BOOLEAN :
        LET newBootedSimulators == getBootedSimulators(listing, execOk)
            seen == Observe(calls[p],
                            Effect("enumeration", "getBootedSimulators",
                                   BootedOutcome(newBootedSimulators, calls[p].udid)))
        IN  calls' = [calls EXCEPT ![p] =
                        IF newBootedSimulators.threw
                        THEN Returned(seen, "false")
                        ELSE IF didBoot(newBootedSimulators, calls[p].udid)
                        THEN Returned(seen, "true")
                        ELSE Returned(seen, "false")]
    /\ UNCHANGED <<listing, sessions, uuidsIssued, now, created, lastCall, requests, process>>

(***************************************************************************)
(* The shutdown-simulator-by-udid tool of the MCP server                   *)
(* (src/unnamed/part_002)                                                  *)
(***************************************************************************)
\* the tool verifying whatever directShutdownByUDID returned
toolAfterShutdownAlwaysVerifies(call, success) == [call EXCEPT !.pc = "toolVerify"]

\* if (!success) return { ..., isError: true }; otherwise the verification
\* is awaited
toolAfterShutdown(call, success) ==
    IF ~success THEN Returned(call, "isError") ELSE [call EXCEPT !.pc = "toolVerify"]

\* if (!verifySuccess) return { ..., isError: true }; otherwise the success
\* text is returned
toolAfterVerify(call, verifySuccess) ==
    IF ~verifySuccess THEN Returned(call, "isError") ELSE Returned(call, "success")

\* the handler of shutdown-simulator-by-udid up to the await of
\* simulatorManager.directShutdownByUDID(params.udid)
ShutdownByUdidTool(p, udid) ==
    /\ CanStart(p)
    /\ calls' = [calls EXCEPT ![p] =
                    [StartCall(p, "shutdown-simulator-by-udid", 0) EXCEPT
                        !.pc = "toolShutdown", !.udid = udid]]
    /\ UNCHANGED <<listing, sessions, uuidsIssued, now, created, lastCall, requests, process>>

\* the directShutdownByUDID of the tool settles
ToolShutdownSettles(p) ==
    /\ calls[p].pc = "toolShutdown"
    /\ \E execOk \in BOOLEAN :
        LET success == directShutdownByUDID(execOk)
            seen == Observe(calls[p],
                            Effect("cli", "shutdown",
                                   IF execOk THEN "resolved" ELSE "rejected"))
        IN  /\ listing' = IF execOk
                          THEN SetDeviceState(listing, calls[p].udid, "Shutdown")
                          ELSE listing
            /\ calls' = [calls EXCEPT ![p] =
                            IF success.threw THEN Returned(seen, "isError")
                            ELSE toolAfterShutdown(seen, success.value)]
    /\ UNCHANGED <<sessions, uuidsIssued, now, created, lastCall, requests, process>>

\* the verifySimulatorShutdown of the tool settles
ToolVerifySettles(p) ==
    /\ calls[p].pc = "toolVerify"
    /\ \E execOk \in BOOLEAN :
        LET verifySuccess == verifySimulatorShutdown(calls[p].udid, listing, execOk)
            seen == Observe(calls[p],
                            Effect("enumeration", "getBootedSimulators",
                                   BootedOutcome(getBootedSimulators(listing, execOk),
                                                 calls[p].udid)))
        IN  calls' = [calls EXCEPT ![p] =
                        IF verifySuccess.threw THEN Returned(seen, "isError")
                        ELSE toolAfterVerify(seen, verifySuccess.value)]
    /\ UNCHANGED <<listing, sessions, uuidsIssued, now, created, lastCall, requests, process>>

(***************************************************************************)
(* The registry specification: two callers, a platform of one device       *)
(***************************************************************************)
SpecListings == {<<PoolDevice(1, "true")>>}

SpecRequests == {Options(<< >>, Str_164dash)}

Init == \E devices \in SpecListings : InitWith(devices, SpecRequests)

Next ==
    \/ CreateSession
    \/ GetSession
    \/ PlatformChange
    \/ \E p \in Procs, sessionId \in 1..MaxIds : TerminateSession(p, sessionId)
    \/ \E p \in Procs, sessionId \in 1..MaxIds : ShutdownSimulator(p, sessionId)
    \/ \E p \in Procs : StatSettles(p)
    \/ \E p \in Procs : StatFallbackSettles(p)
    \/ \E p \in Procs : TerminateResumes(p)
    \/ \E p \in Procs : ApiShutdownSettles(p)
    \/ \E p \in Procs : DirectShutdownSettles(p)
    \/ \E p \in Procs : VerifySettles(p)

Spec == Init /\ [][Next]_vars

(***************************************************************************)
(* The resolver specification: every listing of at most MaxDevices devices *)
(* of the pool, every requested name and version; createSession and       *)
(* getSession only.                                                        *)
(***************************************************************************)
InitMatch ==
    \E devices \in MatchListings, options \in MatchRequests :
        InitWith(devices, {options})

NextMatch ==
    \/ CreateSession
    \/ GetSession

SpecMatch == InitMatch /\ [][NextMatch]_vars


(***************************************************************************)
(* The operations specification: one caller whose collaborators are        *)
(* observed, every method of the manager, a platform of one device that    *)
(* other owners boot and shut down.                                        *)
(***************************************************************************)
\* the callers of the operations specification
OpsProcs == {1}

\* the udids bootByUDID is called with: the listed device and an unknown one
OpsUdids == {U1, U2}

InitOps ==
    /\ listing \in SpecListings
    /\ requests = SpecRequests
    /\ sessions = << >>
    /\ uuidsIssued = 0
    /\ now = 0
    /\ calls = [p \in Procs |-> [IdleCall EXCEPT !.observed = p \in OpsProcs]]
    /\ created = << >>
    /\ lastCall = NoCall
    /\ process = ProcessStart(NoEnv, NoFile)

NextOps ==
    \/ CreateSession
    \/ GetSession
    \/ PlatformChange
    \/ \E p \in OpsProcs, sessionId \in 1..MaxIds : TerminateSession(p, sessionId)
    \/ \E p \in OpsProcs, sessionId \in 1..MaxIds : ShutdownSimulator(p, sessionId)
    \/ \E p \in OpsProcs, sessionId \in 1..MaxIds : BootSimulator(p, sessionId)
    \/ \E p \in OpsProcs, sessionId \in 1..MaxIds : InstallApp(p, sessionId)
    \/ \E p \in OpsProcs, sessionId \in 1..MaxIds : LaunchApp(p, sessionId)
    \/ \E p \in OpsProcs, sessionId \in 1..MaxIds : TerminateApp(p, sessionId)
    \/ \E p \in OpsProcs, sessionId \in 1..MaxIds : GetScreenshot(p, sessionId)
    \/ \E p \in OpsProcs, sessionId \in 1..MaxIds : PerformTap(p, sessionId)
    \/ \E p \in OpsProcs, udid \in OpsUdids : BootByUDID(p, udid)
    \/ \E p \in OpsProcs : StatSettles(p)
    \/ \E p \in OpsProcs : StatFallbackSettles(p)
    \/ \E p \in OpsProcs : TerminateResumes(p)
    \/ \E p \in OpsProcs : ApiShutdownSettles(p)
    \/ \E p \in OpsProcs : DirectShutdownSettles(p)
    \/ \E p \in OpsProcs : VerifySettles(p)
    \/ \E p \in OpsProcs : HandleActionSettles(p)
    \/ \E p \in OpsProcs : BootListSettles(p)
    \/ \E p \in OpsProcs : BootCheckSettles(p)
    \/ \E p \in OpsProcs : BootFactorySettles(p)
    \/ \E p \in OpsProcs : BootRunSettles(p)
    \/ \E p \in OpsProcs : BootDelayElapses(p)
    \/ \E p \in OpsProcs : BootRecheckSettles(p)

SpecOps == InitOps /\ [][NextOps]_vars

(***************************************************************************)
(* The enumeration specification: one observed caller, requests by name    *)
(* and by UDID, the methods and the tool that read the platform listing    *)
(* (createSession, bootByUDID, shutdownSimulator,                          *)
(* shutdown-simulator-by-udid), every enumeration succeeding or failing.   *)
(***************************************************************************)
\* createSession by the default name and by the UDID of the listed device
EnumRequests == {Options(<< >>, Str_164dash), Options(U1, << >>)}

InitEnum ==
    /\ listing \in SpecListings
    /\ requests = EnumRequests
    /\ sessions = << >>
    /\ uuidsIssued = 0
    /\ now = 0
    /\ calls = [p \in Procs |-> [IdleCall EXCEPT !.observed = p \in OpsProcs]]
    /\ created = << >>
    /\ lastCall = NoCall
    /\ process = ProcessStart(NoEnv, NoFile)

NextEnum ==
    \/ CreateSession
    \/ PlatformChange
    \/ \E p \in OpsProcs, sessionId \in 1..MaxIds : ShutdownSimulator(p, sessionId)
    \/ \E p \in OpsProcs, udid \in OpsUdids : BootByUDID(p, udid)
    \/ \E p \in OpsProcs, udid \in OpsUdids : ShutdownByUdidTool(p, udid)
    \/ \E p \in OpsProcs : ApiShutdownSettles(p)
    \/ \E p \in OpsProcs : DirectShutdownSettles(p)
    \/ \E p \in OpsProcs : VerifySettles(p)
    \/ \E p \in OpsProcs : BootListSettles(p)
    \/ \E p \in OpsProcs : BootCheckSettles(p)
    \/ \E p \in OpsProcs : BootFactorySettles(p)
    \/ \E p \in OpsProcs : BootRunSettles(p)
    \/ \E p \in OpsProcs : BootDelayElapses(p)
    \/ \E p \in OpsProcs : BootRecheckSettles(p)
    \/ \E p \in OpsProcs : ToolShutdownSettles(p)
    \/ \E p \in OpsProcs : ToolVerifySettles(p)

SpecEnum == InitEnum /\ [][NextEnum]_vars

(***************************************************************************)
(* The configuration specification: the config module is evaluated once,  *)
(* in a process whose environment and config.json set some of the          *)
(* settings.                                                               *)
(***************************************************************************)
\* the environments: each simulator variable and MCP_LOG_LEVEL unset or set,
\* SIMULATOR_TIMEOUT also set to the empty string
ConfigEnvs ==
    {[NoEnv EXCEPT !.SIMULATOR_DEFAULT_DEVICE = device,
                   !.SIMULATOR_DEFAULT_OS = os,
                   !.SIMULATOR_TIMEOUT = timeout,
                   !.MCP_LOG_LEVEL = logLevel] :
        device \in {Undefined, V(Str_iPhone14Pro)},
        os \in {Undefined, V(<<"1","7",".","0">>)},
        timeout \in {Undefined, V(<<"6","0","0","0","0">>), V(<< >>)},
        logLevel \in {Undefined, V(<<"d","e","b","u","g">>)}}

\* the config.json files: none, and files that set some simulator settings
\* or the log level
ConfigFiles ==
    {NoFile,
     [NoFile EXCEPT !.simulator = [defaultDevice |-> V(Str_iphone14),
                                   defaultOS |-> Undefined,
                                   timeout |-> Undefined]],
     [NoFile EXCEPT !.simulator = [defaultDevice |-> Undefined,
                                   defaultOS |-> V(<<"1","5",".","0">>),
                                   timeout |-> V(10000)]],
     [NoFile EXCEPT !.simulator = [defaultDevice |-> V(Str_iphone14),
                                   defaultOS |-> V(<<"1","5",".","0">>),
                                   timeout |-> V(10000)]],
     [NoFile EXCEPT !.mcp = [port |-> Undefined, logLevel |-> V(<<"w","a","r","n">>)]]}

InitConfig ==
    /\ listing \in SpecListings
    /\ requests = SpecRequests
    /\ sessions = << >>
    /\ uuidsIssued = 0
    /\ now = 0
    /\ calls = [p \in Procs |-> IdleCall]
    /\ created = << >>
    /\ lastCall = NoCall
    /\ \E env \in ConfigEnvs, fileConfig \in ConfigFiles :
        process = ProcessStart(env, fileConfig)

\* the config module is evaluated, at its first import
LoadConfig ==
    /\ process.config = Undefined
    /\ process' = [process EXCEPT !.config = loadConfig(process.env, process.fileConfig)]
    /\ UNCHANGED <<listing, sessions, uuidsIssued, now, calls, created, lastCall, requests>>

NextConfig == LoadConfig

SpecConfig == InitConfig /\ [][NextConfig]_vars

(***************************************************************************)
(* The shutdown specification: shutdownGracefully (src/unnamed/part_004)   *)
(* called with any signals and any shutdown functions.                     *)
(***************************************************************************)
\* the signals the handlers are registered for
Signals == {"SIGINT", "SIGTERM"}

\* what a supplied shutdownFn does when invoked: it returns a promise that
\* resolves or rejects, or it throws before returning one
ShutdownFns == {"resolves", "rejects", "throws"}

\* one call of shutdownGracefully as the process records it
ShutdownCall(signal, shutdownFn, invoked) ==
    [signal |-> signal, shutdownFn |-> shutdownFn, invoked |-> invoked,
     threw |-> invoked /\ shutdownFn = "throws"]

\* shutdownGracefully without the test of isShuttingDown
shutdownGracefullyUnguarded(proc, signal, shutdownFn) ==
    [proc EXCEPT !.isShuttingDown = TRUE,
                 !.shutdownCalls = Append(@, ShutdownCall(signal, shutdownFn, TRUE)),
                 !.pending = IF shutdownFn = "throws" THEN @ ELSE shutdownFn]

\* shutdownGracefully(signal, shutdownFn): the process after the call
shutdownGracefully(proc, signal, shutdownFn) ==
    IF proc.isShuttingDown
    THEN [proc EXCEPT !.shutdownCalls = Append(@, ShutdownCall(signal, shutdownFn, FALSE))]
    ELSE [proc EXCEPT !.isShuttingDown = TRUE,
                      !.shutdownCalls = Append(@, ShutdownCall(signal, shutdownFn, TRUE)),
                      !.pending = IF shutdownFn = "throws" THEN @ ELSE shutdownFn]

InitShutdown ==
    /\ listing \in SpecListings
    /\ requests = SpecRequests
    /\ sessions = << >>
    /\ uuidsIssued = 0
    /\ now = 0
    /\ calls = [p \in Procs |-> IdleCall]
    /\ created = << >>
    /\ lastCall = NoCall
    /\ process = ProcessStart(NoEnv, NoFile)

\* a signal handler calls shutdownGracefully
ShutdownGracefully ==
    /\ ~process.exited
    /\ Len(process.shutdownCalls) < MaxSignals
    /\ \E signal \in Signals, shutdownFn \in ShutdownFns :
        process' = shutdownGracefully(process, signal, shutdownFn)
    /\ UNCHANGED <<listing, sessions, uuidsIssued, now, calls, created, lastCall, requests>>

\* the promise of the invoked shutdownFn settles; a rejection reaches the
\* catch handler: process.exit(1)
ShutdownFnSettles ==
    /\ ~process.exited
    /\ process.pending # "none"
    /\ process' = [process EXCEPT !.pending = "none",
                                  !.exited = process.pending = "rejects"]
    /\ UNCHANGED <<listing, sessions, uuidsIssued, now, calls, created, lastCall, requests>>

NextShutdown ==
    \/ ShutdownGracefully
    \/ ShutdownFnSettles

SpecShutdown == InitShutdown /\ [][NextShutdown]_vars

(***************************************************************************)
(* The interleaving specification: two callers, every method that takes a  *)
(* session id, a platform of one device.                                   *)
(***************************************************************************)
InitRace == \E devices \in SpecListings : InitWith(devices, SpecRequests)

NextRace ==
    \/ CreateSession
    \/ \E p \in Procs, sessionId \in 1..MaxIds : TerminateSession(p, sessionId)
    \/ \E p \in Procs, sessionId \in 1..MaxIds : ShutdownSimulator(p, sessionId)
    \/ \E p \in Procs, sessionId \in 1..MaxIds : BootSimulator(p, sessionId)
    \/ \E p \in Procs, sessionId \in 1..MaxIds : InstallApp(p, sessionId)
    \/ \E p \in Procs, sessionId \in 1..MaxIds : LaunchApp(p, sessionId)
    \/ \E p \in Procs, sessionId \in 1..MaxIds : TerminateApp(p, sessionId)
    \/ \E p \in Procs, sessionId \in 1..MaxIds : GetScreenshot(p, sessionId)
    \/ \E p \in Procs, sessionId \in 1..MaxIds : PerformTap(p, sessionId)
    \/ \E p \in Procs : StatSettles(p)
    \/ \E p \in Procs : StatFallbackSettles(p)
    \/ \E p \in Procs : TerminateResumes(p)
    \/ \E p \in Procs : ApiShutdownSettles(p)
    \/ \E p \in Procs : DirectShutdownSettles(p)
    \/ \E p \in Procs : VerifySettles(p)
    \/ \E p \in Procs : HandleActionSettles(p)

SpecRace == InitRace /\ [][NextRace]_vars

(***************************************************************************)
(* Properties of the device resolver (checked under SpecMatch)             *)
(***************************************************************************)
\* the last call was a createSession
LastIsCreate == lastCall.op = "createSession"

\* the simulator the last createSession selected
LastSelected == lastCall.simulators[lastCall.selected]

Str_SpacePro == <<" ", "P", "r", "o">>

\* C1: when the enumeration holds no device named exactly D1, resolving D1
\* never selects, at the word-boundary tier, the device named D1 + " Pro"
C1_WordBoundaryRejectsPro ==
    (/\ LastIsCreate
     /\ \A i \in DOMAIN lastCall.simulators :
            lastCall.simulators[i].name # lastCall.deviceName
     /\ \E i \in DOMAIN lastCall.simulators :
            /\ lastCall.simulators[i].name = lastCall.deviceName \o Str_SpacePro
            /\ lastCall.simulators[i].isAvailable
            /\ versionMatch(lastCall.simulators[i], lastCall.platformVersion))
    => ~(/\ lastCall.tier = "wordBoundary"
         /\ LastSelected.name = lastCall.deviceName \o Str_SpacePro)

\* the enumeration of the worked example: "iPhone 14" (U1) and
\* "iPhone 14 Pro" (U2), both of a runtime ending in 16-4, both available
ExampleEnumeration ==
    <<SimulatorInfo(PoolDevice(1, "true")), SimulatorInfo(PoolDevice(2, "absent"))>>

\* C2: on the example enumeration createSession("iPhone 14", "16.4") binds
\* the session to U1 and createSession("14 Pro", "16.4") binds it to U2
C2_ExampleResolves ==
    (/\ LastIsCreate
     /\ lastCall.simulators = ExampleEnumeration
     /\ lastCall.options.platformVersion = Str_164dot
     /\ lastCall.options.deviceName \in {Str_iPhone14, Str_14Pro}
     /\ lastCall.handle # "rejected")
    => /\ ~lastCall.threw
       /\ lastCall.id \in DOMAIN sessions
       /\ sessions[lastCall.id].udid =
              IF lastCall.options.deviceName = Str_iPhone14 THEN U1 ELSE U2

\* C3: a requested name of UDID syntax, in either letter case, whose device
\* is enumerated and available is resolved by the direct lookup, before any
\* name tier, whatever its name and the requested or default version; the
\* session is bound to that device
C3_UdidShortCircuit ==
    (/\ LastIsCreate
     /\ isUdidSyntax(lastCall.deviceName)
     /\ \E i \in DOMAIN lastCall.simulators :
            /\ lastCall.simulators[i].udid = lastCall.deviceName
            /\ lastCall.simulators[i].isAvailable)
    => /\ lastCall.tier = "udid"
       /\ LastSelected.udid = lastCall.deviceName
       /\ lastCall.handle = "acquired" =>
            /\ ~lastCall.threw
            /\ lastCall.id \in DOMAIN sessions
            /\ sessions[lastCall.id].udid = lastCall.deviceName

\* a session bound by the direct lookup to the device with the lower-case
\* udid, whose runtime the requested version does not match
C3_Witness ==
    /\ LastIsCreate
    /\ lastCall.deviceName = U3
    /\ lastCall.tier = "udid"
    /\ lastCall.options.platformVersion = Str_164dash
    /\ ~versionMatch(LastSelected, lastCall.platformVersion)
    /\ ~lastCall.threw
    /\ sessions[lastCall.id].udid = U3

\* the indices of the enumerated simulators each tier accepts for the last
\* createSession
Tier1Hits ==
    {i \in DOMAIN lastCall.simulators :
        exactNameAccepts(lastCall.simulators[i], lastCall.deviceName,
                         lastCall.platformVersion)}
Tier2Hits ==
    {i \in DOMAIN lastCall.simulators :
        wordBoundaryAccepts(lastCall.simulators[i], modelPattern(lastCall.deviceName),
                            lastCall.platformVersion)}
Tier3Hits ==
    {i \in DOMAIN lastCall.simulators :
        substringAccepts(lastCall.simulators[i], lastCall.deviceName,
                         lastCall.platformVersion)}

\* the least element of a non-empty set of indices
FirstOf(hits) == CHOOSE i \in hits : \A j \in hits : i <= j

\* C4: without a direct lookup hit, the selection is the first device in
\* enumeration order of the first non-empty tier among exact, word-boundary,
\* substring, and no device when the three tiers are empty
C4_TierOrder ==
    (LastIsCreate /\ lastCall.tier # "udid")
    => IF Tier1Hits # {}
       THEN lastCall.tier = "exact" /\ lastCall.selected = FirstOf(Tier1Hits)
       ELSE IF Tier2Hits # {}
       THEN lastCall.tier = "wordBoundary" /\ lastCall.selected = FirstOf(Tier2Hits)
       ELSE IF Tier3Hits # {}
       THEN lastCall.tier = "substring" /\ lastCall.selected = FirstOf(Tier3Hits)
       ELSE lastCall.tier = "none" /\ lastCall.selected = 0 /\ lastCall.threw

\* the exact tier selected the second device although the first one is a
\* word-boundary hit
C4_Witness ==
    /\ LastIsCreate
    /\ lastCall.tier = "exact"
    /\ lastCall.selected = 2
    /\ 1 \in Tier2Hits
    /\ ~lastCall.threw

\* C5: every session of the registry is bound to a udid that the enumeration
\* of its createSession held and did not mark unavailable
C5_OnlyAvailableDevices ==
    \A sid \in DOMAIN sessions :
        \E i \in DOMAIN created[sid].simulators :
            /\ created[sid].simulators[i].udid = sessions[sid].udid
            /\ created[sid].simulators[i].isAvailable
            /\ \E j \in DOMAIN listing :
                /\ listing[j].udid = sessions[sid].udid
                /\ listing[j].isAvailable # "false"

\* a session bound to the second device because the first one, of exactly
\* the requested name, is marked unavailable
C5_Witness ==
    \E sid \in DOMAIN sessions :
        /\ Len(created[sid].simulators) = 2
        /\ ~created[sid].simulators[1].isAvailable
        /\ toLowerCase(created[sid].simulators[1].name) = toLowerCase(created[sid].deviceName)
        /\ versionMatch(created[sid].simulators[1], created[sid].platformVersion)
        /\ sessions[sid].udid = created[sid].simulators[2].udid

\* C6: a createSession that selects no device, or whose device handle is not
\* acquired, throws and leaves the registry as it was
C6_FailedCreateKeepsRegistry ==
    [][(/\ lastCall' # lastCall
        /\ lastCall'.op = "createSession"
        /\ (lastCall'.selected = 0 \/ lastCall'.handle = "rejected"))
       => /\ lastCall'.threw
          /\ sessions' = sessions]_vars

\* a createSession failed on the handle while the registry held a session
C6_Witness ==
    /\ LastIsCreate
    /\ lastCall.handle = "rejected"
    /\ lastCall.threw
    /\ DOMAIN sessions # {}

\* C7: getSession on the id a successful createSession just returned gives
\* the record of that id, bound to the udid of the device the resolver
\* selects for the same inputs and enumeration
C7_GetAfterCreate ==
    [][(/\ lastCall.op = "createSession"
        /\ ~lastCall.threw
        /\ lastCall'.op = "getSession"
        /\ lastCall'.sessionId = lastCall.id)
       => /\ lastCall'.returned = lastCall.id
          /\ sessions'[lastCall.id].id = lastCall.id
          /\ sessions'[lastCall.id].udid =
                lastCall.simulators[selectSimulator(lastCall.options,
                                                    lastCall.simulators).index].udid]_vars

\* getSession returned the record of the second session, bound to the
\* "iPhone 14 Pro" device
C7_Witness ==
    /\ lastCall.op = "getSession"
    /\ lastCall.returned = 2
    /\ sessions[2].id = 2
    /\ sessions[2].udid = U2


(***************************************************************************)
(* Properties of the session registry (checked under Spec)                 *)
(***************************************************************************)
\* C8: a createSession that succeeds returns an id no earlier createSession
\* returned, also after that id's session was terminated, and the registry
\* holds each record under its own id, one record per id
C8_UniqueIds ==
    /\ [](/\ \A k \in DOMAIN sessions : sessions[k].id = k
          /\ \A r1, r2 \in getAllSessions : r1.id = r2.id => r1 = r2
          /\ DOMAIN sessions \subseteq DOMAIN created
          /\ Cardinality(DOMAIN created) = uuidsIssued)
    /\ [][uuidsIssued' # uuidsIssued =>
            /\ lastCall'.op = "createSession"
            /\ lastCall'.id \notin DOMAIN created
            /\ lastCall'.id \in DOMAIN sessions'
            /\ sessions'[lastCall'.id].id = lastCall'.id]_vars

\* a second session was created after the first one was terminated, under
\* another id
C8_Witness ==
    /\ LastIsCreate
    /\ ~lastCall.threw
    /\ uuidsIssued = 2
    /\ DOMAIN sessions = {lastCall.id}
    /\ \E p \in Procs :
        /\ calls[p].op = "terminateSession"
        /\ calls[p].pc = "done"
        /\ calls[p].result = "true"
        /\ calls[p].sessionId # lastCall.id

\* C9: a terminateSession that found its session in the registry and has
\* completed returned true and left the session out of the registry and of
\* getAllSessions, whatever the status query and the shutdown did; a
\* getSession of a missing id returns undefined
C9_TerminateAlwaysRemoves ==
    /\ [](\A p \in Procs :
            (/\ calls[p].op = "terminateSession"
             /\ calls[p].pc = "done"
             /\ calls[p].session # 0)
            => /\ calls[p].result = "true"
               /\ calls[p].sessionId \notin DOMAIN sessions
               /\ \A r \in getAllSessions : r.id # calls[p].sessionId)
    /\ [][(/\ lastCall' # lastCall
           /\ lastCall'.op = "getSession"
           /\ lastCall'.sessionId \notin DOMAIN sessions)
          => lastCall'.returned = 0]_vars

\* a terminateSession completed after its shutdownSimulator returned false,
\* the device still booted, and getSession of its id returned undefined
C9_Witness ==
    \E p \in Procs :
        /\ calls[p].op = "terminateSession"
        /\ calls[p].pc = "done"
        /\ calls[p].session # 0
        /\ calls[p].shutdownResult = "false"
        /\ DeviceState(listing, HeldUdid(calls[p])) = "Booted"
        /\ calls[p].sessionId \notin DOMAIN sessions
        /\ lastCall.op = "getSession"
        /\ lastCall.sessionId = calls[p].sessionId
        /\ lastCall.returned = 0

\* the two callers run terminateSession on the same session, which both
\* found in the registry
BothTerminateSame ==
    /\ \A p \in Procs : calls[p].op = "terminateSession" /\ calls[p].session # 0
    /\ calls[1].sessionId = calls[2].sessionId

\* the step that resumes the suspended call of caller p
Resume(p) ==
    \/ StatSettles(p)
    \/ StatFallbackSettles(p)
    \/ TerminateResumes(p)
    \/ ApiShutdownSettles(p)
    \/ DirectShutdownSettles(p)
    \/ VerifySettles(p)

\* C10: of two interleaved terminateSession calls on the same session none
\* throws (each returns true or false), each suspended call can resume,
\* the session is absent once both have completed, and the deletion by the
\* call that completes second leaves the registry as it is
C10_ConcurrentTerminate ==
    /\ [](BothTerminateSame =>
            /\ \A p \in Procs :
                IF calls[p].pc = "done"
                THEN calls[p].result \in {"true", "false"}
                ELSE ENABLED Resume(p)
            /\ (\A p \in Procs : calls[p].pc = "done")
                => calls[1].sessionId \notin DOMAIN sessions)
    /\ [][(/\ BothTerminateSame
           /\ calls[1].sessionId \notin DOMAIN sessions
           /\ \E p \in Procs : calls[p].pc # "done" /\ calls'[p].pc = "done")
          => sessions' = sessions]_vars

\* both calls found the session, both went through shutdownSimulator and
\* both returned true
C10_Witness ==
    /\ BothTerminateSame
    /\ \A p \in Procs :
        /\ calls[p].pc = "done"
        /\ calls[p].result = "true"
        /\ calls[p].shutdownResult # "none"
    /\ calls[1].sessionId \notin DOMAIN sessions


(***************************************************************************)
(* Properties of the operations (checked under SpecOps)                    *)
(***************************************************************************)
\* the effects of a call on one collaborator action
EffectsOn(call, kind, action) ==
    SelectSeq(call.effects, LAMBDA e : e.kind = kind /\ e.action = action)

\* the call of caller p is a completed `op` that found its session
CompletedOn(p, op) ==
    /\ calls[p].op = op
    /\ calls[p].pc = "done"
    /\ calls[p].session # 0

\* the last effect of a call that has some
LastEffect(call) == call.effects[Len(call.effects)]

\* C11: a shutdownSimulator whose handle shutdown rejected, or resolved with
\* the device still enumerated as booted, and whose simctl shutdown was
\* followed by a verification that found the udid absent, returns true
C11_FallbackSuccessIsTrue ==
    \A p \in OpsProcs :
        (/\ CompletedOn(p, "shutdownSimulator")
         /\ Len(calls[p].effects) >= 3
         /\ calls[p].effects[1].action = "shutdown" /\ calls[p].effects[1].kind = "handle"
         /\ \/ calls[p].effects[1].outcome = "rejected"
            \/ calls[p].effects[2] = Effect("enumeration", "getBootedSimulators", "present")
         /\ \E i \in 1..(Len(calls[p].effects) - 1) :
                /\ calls[p].effects[i].kind = "cli"
                /\ calls[p].effects[i + 1] =
                       Effect("enumeration", "getBootedSimulators", "absent"))
        => calls[p].result = "true"

\* the handle shutdown rejected, the simctl shutdown succeeded, the
\* verification found the udid absent and shutdownSimulator returned true
C11_Witness ==
    \E p \in OpsProcs :
        /\ CompletedOn(p, "shutdownSimulator")
        /\ calls[p].effects = <<Effect("handle", "shutdown", "rejected"),
                                Effect("cli", "shutdown", "resolved"),
                                Effect("enumeration", "getBootedSimulators", "absent")>>
        /\ calls[p].result = "true"

\* C12: a shutdownSimulator that returns true ended on a verification that
\* found the udid absent from the enumerated booted simulators, and one whose
\* last verification found it present returns false, whatever the shutdown
\* actions reported
C12_ObservedStateDecides ==
    \A p \in OpsProcs :
        CompletedOn(p, "shutdownSimulator")
        => /\ calls[p].result \in {"true", "false"}
           /\ calls[p].result = "true" <=>
                LastEffect(calls[p]) = Effect("enumeration", "getBootedSimulators", "absent")
           /\ LastEffect(calls[p]) = Effect("enumeration", "getBootedSimulators", "present")
                => calls[p].result = "false"

\* the handle shutdown and the simctl shutdown both resolved, the device is
\* still enumerated as booted after the fallback, and the call returned false
C12_Witness ==
    \E p \in OpsProcs :
        /\ CompletedOn(p, "shutdownSimulator")
        /\ calls[p].effects = <<Effect("handle", "shutdown", "resolved"),
                                Effect("enumeration", "getBootedSimulators", "present"),
                                Effect("cli", "shutdown", "resolved"),
                                Effect("enumeration", "getBootedSimulators", "present")>>
        /\ calls[p].result = "false"

\* C13: a completed shutdownSimulator awaited the handle's shutdown exactly
\* once, before anything else, and the simctl shutdown at most once
C13_AtMostOneFallback ==
    \A p \in OpsProcs :
        CompletedOn(p, "shutdownSimulator")
        => /\ Len(EffectsOn(calls[p], "handle", "shutdown")) = 1
           /\ calls[p].effects[1] \in {Effect("handle", "shutdown", "resolved"),
                                       Effect("handle", "shutdown", "rejected")}
           /\ Len(EffectsOn(calls[p], "cli", "shutdown")) <= 1


\* the call of caller p is a completed bootByUDID
CompletedBoot(p) == calls[p].op = "bootByUDID" /\ calls[p].pc = "done"

\* C14: a bootByUDID whose udid is enumerated and already among the booted
\* simulators returns true without getSimulator and without run()
C14_AlreadyBooted ==
    \A p \in OpsProcs :
        (/\ CompletedBoot(p)
         /\ Len(calls[p].effects) >= 2
         /\ calls[p].effects[1] = Effect("enumeration", "getAllSimulators", "found")
         /\ calls[p].effects[2] = Effect("enumeration", "getBootedSimulators", "present"))
        => /\ calls[p].result = "true"
           /\ EffectsOn(calls[p], "factory", "getSimulator") = << >>
           /\ EffectsOn(calls[p], "handle", "run") = << >>
           /\ Len(calls[p].effects) = 2

\* bootByUDID of the listed device, found booted, returned true
C14_Witness ==
    \E p \in OpsProcs :
        /\ CompletedBoot(p)
        /\ calls[p].udid = U1
        /\ calls[p].effects = <<Effect("enumeration", "getAllSimulators", "found"),
                                Effect("enumeration", "getBootedSimulators", "present")>>
        /\ calls[p].result = "true"
        /\ DeviceState(listing, U1) = "Booted"

\* the effects of a bootByUDID from its run() on
FromRun(call) ==
    LET i == CHOOSE k \in DOMAIN call.effects :
                 call.effects[k].kind = "handle" /\ call.effects[k].action = "run"
    IN  SubSeq(call.effects, i, Len(call.effects))

\* a bootByUDID without run() whose udid the enumeration does not hold
\* returns false
MissingUdidIsFalse(call) ==
    call.effects[1] # Effect("enumeration", "getAllSimulators", "found")
    => /\ call.result = "false"
       /\ Len(call.effects) = 1

\* C15 as stated: every bootByUDID that awaited run() went on to the timer
\* and the second enumeration and returns true exactly when that enumeration
\* holds the udid; an unknown udid gives false without run()
C15_StartAlwaysRechecked ==
    \A p \in OpsProcs :
        CompletedBoot(p)
        => /\ EffectsOn(calls[p], "handle", "run") # << >>
                => \E outcome \in {"resolved", "rejected"}, seenAs \in {"present", "absent"} :
                    /\ FromRun(calls[p]) =
                           <<Effect("handle", "run", outcome),
                             Effect("timer", "setTimeout", "fired"),
                             Effect("enumeration", "getBootedSimulators", seenAs)>>
                    /\ calls[p].result = "true" <=> seenAs = "present"
           /\ MissingUdidIsFalse(calls[p])

\* C15: a bootByUDID whose run() resolved went on to the timer and the
\* second enumeration and returns true exactly when that enumeration holds
\* the udid; one whose run() rejected returns false without a second
\* enumeration; an unknown udid gives false without run()
C15_RecheckDecides ==
    \A p \in OpsProcs :
        CompletedBoot(p)
        => /\ EffectsOn(calls[p], "handle", "run") # << >>
                => \/ \E seenAs \in {"present", "absent"} :
                        /\ FromRun(calls[p]) =
                               <<Effect("handle", "run", "resolved"),
                                 Effect("timer", "setTimeout", "fired"),
                                 Effect("enumeration", "getBootedSimulators", seenAs)>>
                        /\ calls[p].result = "true" <=> seenAs = "present"
                   \/ /\ FromRun(calls[p]) = <<Effect("handle", "run", "rejected")>>
                      /\ calls[p].result = "false"
           /\ MissingUdidIsFalse(calls[p])

\* run() resolved, the device is not among the booted simulators after the
\* delay, and bootByUDID returned false
C15_Witness ==
    \E p \in OpsProcs :
        /\ CompletedBoot(p)
        /\ EffectsOn(calls[p], "handle", "run") # << >>
        /\ FromRun(calls[p]) = <<Effect("handle", "run", "resolved"),
                                 Effect("timer", "setTimeout", "fired"),
                                 Effect("enumeration", "getBootedSimulators", "absent")>>
        /\ calls[p].result = "false"


\* some awaited collaborator call of `call` rejected
SomeRejected(call) ==
    \E i \in DOMAIN call.effects : call.effects[i].outcome = "rejected"

\* the values a method returns to its caller
ReturnValues(op) ==
    IF op = "getScreenshot" THEN {"screenshot", "null"} ELSE {"true", "false"}

\* C16 as stated: a completed call of which some handle, simctl or
\* enumeration call failed returned false (null for getScreenshot)
C16_FailureIsFalse ==
    \A p \in OpsProcs :
        (calls[p].pc = "done" /\ SomeRejected(calls[p]))
        => calls[p].result = failureValue(calls[p].op)

\* C16: no method raises: a completed call returned a boolean (getScreenshot:
\* the image or null); a delegating method whose handle action rejected, and
\* a bootByUDID whose getSimulator or run() rejected, returned false (null);
\* a failed listing makes getAllSimulators and getBootedSimulators return
\* the empty list and a failed command makes directShutdownByUDID return
\* false; verifySimulatorShutdown returns a boolean
C16_NeverRaises ==
    /\ \A p \in OpsProcs :
        calls[p].pc = "done"
        => /\ calls[p].result \in ReturnValues(calls[p].op)
           /\ (/\ calls[p].op \in DOMAIN HandleAction \cup {"bootByUDID"}
               /\ SomeRejected(calls[p]))
              => calls[p].result = failureValue(calls[p].op)
    /\ \A execOk \in BOOLEAN :
        /\ ~getAllSimulators(listing, execOk).threw
        /\ ~getBootedSimulators(listing, execOk).threw
        /\ ~directShutdownByUDID(execOk).threw
        /\ \A i \in DOMAIN listing :
            /\ ~verifySimulatorShutdown(listing[i].udid, listing, execOk).threw
            /\ verifySimulatorShutdown(listing[i].udid, listing, execOk).value \in BOOLEAN
    /\ getAllSimulators(listing, FALSE).value = << >>
    /\ getBootedSimulators(listing, FALSE).value = {}
    /\ directShutdownByUDID(FALSE).value = FALSE

\* getScreenshot on an existing session returned null after the handle's
\* getScreenshot rejected
C16_Witness ==
    \E p \in OpsProcs :
        /\ CompletedOn(p, "getScreenshot")
        /\ calls[p].effects = <<Effect("handle", "getScreenshot", "rejected")>>
        /\ calls[p].result = "null"

\* the methods that take a session id
SessionIdMethods == DOMAIN HandleAction \cup {"terminateSession", "shutdownSimulator"}

\* C17: a method called with a session id that is not in the registry
\* returns at once, false (null for getScreenshot), having awaited no handle
\* action, no simctl command and no enumeration, and leaves the registry and
\* the devices as they are; getSession of such an id returns undefined and
\* leaves the registry as it is
C17_MissingSession ==
    [][/\ \A p \in OpsProcs :
            (/\ CanStart(p)
             /\ calls'[p] # calls[p]
             /\ calls'[p].op \in SessionIdMethods
             /\ calls'[p].sessionId \notin DOMAIN sessions)
            => /\ calls'[p].pc = "done"
               /\ calls'[p].result = failureValue(calls'[p].op)
               /\ calls'[p].effects = << >>
               /\ sessions' = sessions
               /\ listing' = listing
       /\ (/\ lastCall' # lastCall
           /\ lastCall'.op = "getSession"
           /\ lastCall'.sessionId \notin DOMAIN sessions)
          => lastCall'.returned = 0 /\ sessions' = sessions]_vars

\* getScreenshot of an id never issued returned null while the registry
\* holds a session
C17_Witness ==
    \E p \in OpsProcs :
        /\ calls[p].op = "getScreenshot"
        /\ calls[p].pc = "done"
        /\ calls[p].sessionId \notin DOMAIN created
        /\ calls[p].result = "null"
        /\ calls[p].effects = << >>
        /\ DOMAIN sessions # {}


\* C19: a completed bootSimulator on an existing session awaited run() of the
\* handle once and nothing else, and returned true exactly when run()
\* resolved
C19_BootDelegates ==
    \A p \in OpsProcs :
        CompletedOn(p, "bootSimulator")
        => \E outcome \in {"resolved", "rejected"} :
            /\ calls[p].effects = <<Effect("handle", "run", outcome)>>
            /\ calls[p].result = "true" <=> outcome = "resolved"

\* bootSimulator returned true after run() resolved although the platform
\* reports the device as shut down
C19_Witness ==
    \E p \in OpsProcs :
        /\ CompletedOn(p, "bootSimulator")
        /\ calls[p].effects = <<Effect("handle", "run", "resolved")>>
        /\ calls[p].result = "true"
        /\ DeviceState(listing, HeldUdid(calls[p])) = "Shutdown"

\* the stat() of a completed terminateSession rejected
StatRejected(call) == call.effects[1].outcome = "rejected"

\* how many effects a completed terminateSession needed to know isRunning
DecisionLength(call) == IF StatRejected(call) THEN 2 ELSE 1

\* the isRunning a completed terminateSession determined
DeterminedRunning(call) ==
    IF StatRejected(call)
    THEN call.effects[2].outcome = "present"
    ELSE call.effects[1].outcome = "Booted"

\* C20: a completed terminateSession that found its session first awaited
\* stat(); it awaited getBootedSimulators for the decision exactly when
\* stat() rejected; it called shutdownSimulator exactly when the device was
\* determined running (Booted, or among the booted simulators); and it
\* removed the record and returned true in either case
C20_TerminateDecision ==
    \A p \in OpsProcs :
        CompletedOn(p, "terminateSession")
        => /\ calls[p].effects[1].kind = "handle" /\ calls[p].effects[1].action = "stat"
           /\ StatRejected(calls[p])
                => /\ calls[p].effects[2].kind = "enumeration"
                   /\ calls[p].effects[2].action = "getBootedSimulators"
           /\ Len(calls[p].effects) > DecisionLength(calls[p])
                <=> DeterminedRunning(calls[p])
           /\ Len(calls[p].effects) > DecisionLength(calls[p])
                => calls[p].effects[DecisionLength(calls[p]) + 1] =
                       Effect("method", "shutdownSimulator", "called")
           /\ calls[p].sessionId \notin DOMAIN sessions
           /\ calls[p].result = "true"

\* stat() rejected, the enumeration held the udid, shutdownSimulator was
\* called, and the record is removed
C20_Witness ==
    \E p \in OpsProcs :
        /\ CompletedOn(p, "terminateSession")
        /\ Len(calls[p].effects) >= 3
        /\ calls[p].effects[1] = Effect("handle", "stat", "rejected")
        /\ calls[p].effects[2] = Effect("enumeration", "getBootedSimulators", "present")
        /\ calls[p].effects[3] = Effect("method", "shutdownSimulator", "called")
        /\ calls[p].sessionId \notin DOMAIN sessions
        /\ calls[p].result = "true"

Listed(udid) == \E i \in DOMAIN listing : listing[i].udid = udid

\* the last createSession enumerated no simulator although the platform
\* lists some: the listing could not be retrieved or parsed
LastEnumerationFailed ==
    /\ LastIsCreate
    /\ listing # << >>
    /\ lastCall.simulators = << >>

\* C21: a listing that cannot be retrieved or parsed is enumerated as the
\* empty list, without an exception; a createSession that enumerated it
\* throws the no-matching-simulator error, for a name as for a UDID, asks
\* for no handle and adds no session; a bootByUDID that enumerated it
\* returns false and awaits nothing else
C21_FailedListingIsEmpty ==
    /\ [](/\ getAllSimulators(listing, FALSE) = [threw |-> FALSE, value |-> << >>]
          /\ LastEnumerationFailed
                => /\ lastCall.threw
                   /\ lastCall.tier = "none"
                   /\ lastCall.handle = "notAsked"
                   /\ lastCall.id = 0
          /\ \A p \in OpsProcs :
                (/\ CompletedBoot(p)
                 /\ Listed(calls[p].udid)
                 /\ calls[p].effects[1].outcome # "found")
                => /\ calls[p].effects = <<Effect("enumeration", "getAllSimulators", "missing")>>
                   /\ calls[p].result = "false")
    /\ [][(lastCall' # lastCall /\ lastCall'.op = "createSession"
              /\ lastCall'.simulators = << >>)
          => sessions' = sessions]_vars

\* a createSession by UDID failed on the enumeration while the registry held
\* a session, and a bootByUDID of the listed device returned false on it
C21_Witness ==
    /\ LastEnumerationFailed
    /\ lastCall.options.deviceName = U1
    /\ lastCall.threw
    /\ DOMAIN sessions # {}
    /\ \E p \in OpsProcs :
        /\ CompletedBoot(p)
        /\ calls[p].udid = U1
        /\ calls[p].effects = <<Effect("enumeration", "getAllSimulators", "missing")>>

(***************************************************************************)
(* Properties of the session records (checked under SpecOps)               *)
(***************************************************************************)
\* the fields of a session record that identify it and its device
Identity(session) ==
    <<session.id, session.udid, session.deviceName, session.platformVersion,
      session.createdAt>>

\* C22: whatever the operation, a record that stays in the registry keeps
\* its id, udid, device name, OS version and createdAt; a record changes
\* only in a getSession of its id, which changes its lastUsedAt alone, to a
\* time not before createdAt, and leaves the other records and the keys of
\* the registry as they were
C22_OnlyLastUsedChanges ==
    /\ [](\A sid \in DOMAIN sessions :
            /\ sessions[sid].id = sid
            /\ sessions[sid].lastUsedAt >= sessions[sid].createdAt)
    /\ [][\A sid \in DOMAIN sessions \cap DOMAIN sessions' :
            /\ Identity(sessions'[sid]) = Identity(sessions[sid])
            /\ sessions'[sid] # sessions[sid]
                => /\ lastCall'.op = "getSession"
                   /\ lastCall'.returned = sid
                   /\ sessions'[sid].lastUsedAt >= sessions[sid].createdAt
                   /\ DOMAIN sessions' = DOMAIN sessions
                   /\ \A other \in DOMAIN sessions \ {sid} :
                        sessions'[other] = sessions[other]]_vars

\* a getSession refreshed the lastUsedAt of one of two records
C22_Witness ==
    /\ lastCall.op = "getSession"
    /\ lastCall.returned \in DOMAIN sessions
    /\ sessions[lastCall.returned].lastUsedAt > sessions[lastCall.returned].createdAt
    /\ \E other \in DOMAIN sessions :
        /\ other # lastCall.returned
        /\ sessions[other].lastUsedAt = sessions[other].createdAt

(***************************************************************************)
(* Properties of sessions that share a device (checked under Spec)         *)
(***************************************************************************)
\* C23: a createSession whose handle is acquired succeeds whatever sessions
\* are bound to the selected device, and adds one record under a new id
\* without touching the others; a record leaves the registry only in the
\* step that completes a terminateSession of its own id, which removes that
\* record alone; a step that changes the state of a device leaves the
\* registry as it was
C23_NoExclusivity ==
    [][/\ (lastCall' # lastCall /\ lastCall'.op = "createSession"
                /\ lastCall'.handle = "acquired")
            => /\ ~lastCall'.threw
               /\ lastCall'.id \notin DOMAIN sessions
               /\ DOMAIN sessions' = DOMAIN sessions \cup {lastCall'.id}
               /\ sessions'[lastCall'.id].udid
                    = lastCall'.simulators[lastCall'.selected].udid
               /\ \A sid \in DOMAIN sessions : sessions'[sid] = sessions[sid]
       /\ \A sid \in DOMAIN sessions \ DOMAIN sessions' :
            /\ \E p \in Procs :
                /\ calls[p].op = "terminateSession"
                /\ calls[p].sessionId = sid
                /\ calls[p].pc # "done"
                /\ calls'[p].pc = "done"
            /\ DOMAIN sessions' = DOMAIN sessions \ {sid}
            /\ \A other \in DOMAIN sessions' : sessions'[other] = sessions[other]
       /\ listing' # listing => sessions' = sessions]_vars

\* two sessions were bound to one device; the terminateSession of one shut
\* the device down and removed its record, the other record is still there
C23_Witness ==
    \E p \in Procs, sid, other \in DOMAIN created :
        /\ sid # other
        /\ created[sid].udid = created[other].udid
        /\ calls[p].op = "terminateSession"
        /\ calls[p].sessionId = sid
        /\ calls[p].pc = "done"
        /\ calls[p].shutdownResult = "true"
        /\ DeviceState(listing, created[sid].udid) = "Shutdown"
        /\ sid \notin DOMAIN sessions
        /\ other \in DOMAIN sessions
        /\ sessions[other].udid = created[sid].udid

\* the call of caller p reports that the device is shut down:
\* shutdownSimulator returned true, or the tool its success text
ReportsShutdown(call) ==
    \/ call.op = "shutdownSimulator" /\ call.result = "true"
    \/ call.op = "shutdown-simulator-by-udid" /\ call.result = "success"

\* the udid a shutdown call is about
ShutdownUdid(call) ==
    IF call.op = "shutdown-simulator-by-udid" THEN call.udid ELSE HeldUdid(call)

\* C24: verifySimulatorShutdown returns false when the listing cannot be
\* retrieved or parsed, so no shutdownSimulator and no
\* shutdown-simulator-by-udid call reports success in a step in which the
\* platform has the device booted
C24_FailedEnumerationIsFalse ==
    /\ [](\A i \in DOMAIN listing :
            ~verifySimulatorShutdown(listing[i].udid, listing, FALSE).value)
    /\ [][\A p \in OpsProcs :
            (/\ calls[p].pc \in {"verify", "verifyRetry", "toolVerify"}
             /\ calls'[p].pc = "done"
             /\ ReportsShutdown(calls'[p]))
            => DeviceState(listing, ShutdownUdid(calls[p])) # "Booted"]_vars

(***************************************************************************)
(* Nesting of the tiers (checked under SpecMatch)                          *)
(***************************************************************************)
\* C25: for the name and version of a createSession, every enumerated
\* device that Tier 1 accepts is accepted by Tier 2, and every device that
\* Tier 2 accepts is accepted by Tier 3
C25_TiersNested ==
    LastIsCreate => /\ Tier1Hits \subseteq Tier2Hits
                    /\ Tier2Hits \subseteq Tier3Hits

(***************************************************************************)
(* Properties of the configuration (checked under SpecConfig)              *)
(***************************************************************************)
\* the value of a setting by precedence: the environment's if it sets one,
\* otherwise the file's if it has one, otherwise the default
ByPrecedence(section, setting) ==
    LET fromEnv == envConfig(process.env)[section][setting]
        fromFile == IF process.fileConfig[section] = Undefined THEN Undefined
                    ELSE process.fileConfig[section][setting]
    IN  IF fromEnv # Undefined THEN fromEnv
        ELSE IF fromFile # Undefined THEN fromFile
        ELSE defaultConfig[section][setting]

\* C26: each of simulator.defaultDevice, simulator.defaultOS and
\* simulator.timeout of the exported config is the environment's value if
\* set, otherwise the file's if present, otherwise the default, and is never
\* undefined
C26_PrecedencePerSetting ==
    process.config # Undefined
        => \A setting \in {"defaultDevice", "defaultOS", "timeout"} :
            /\ process.config.simulator[setting] = ByPrecedence("simulator", setting)
            /\ process.config.simulator[setting] # Undefined

(***************************************************************************)
(* Properties of shutdownGracefully (checked under SpecShutdown)           *)
(***************************************************************************)
\* C27: of the calls of shutdownGracefully in one process, the first one
\* invokes its shutdown function and no later one does, whatever the
\* signals and the functions and however the first function ended; the
\* flag isShuttingDown, once set, stays set
C27_FirstCallOnly ==
    /\ [](/\ \A i \in DOMAIN process.shutdownCalls :
                process.shutdownCalls[i].invoked <=> i = 1
          /\ process.isShuttingDown <=> process.shutdownCalls # << >>)
    /\ [][process.isShuttingDown => process'.isShuttingDown]_vars

\* the shutdown function of the first call failed (it threw); the calls that
\* followed, up to the bound, invoked nothing
C27_Witness ==
    /\ Len(process.shutdownCalls) = MaxSignals
    /\ process.shutdownCalls[1].invoked
    /\ process.shutdownCalls[1].threw
    /\ process.pending = "none"
    /\ ~process.shutdownCalls[2].invoked
    /\ process.shutdownCalls[2].shutdownFn = "resolves"

(***************************************************************************)
(* Properties of the shutdown-simulator-by-udid tool (checked under        *)
(* SpecEnum)                                                               *)
(***************************************************************************)
\* the call of caller p is a completed shutdown-simulator-by-udid
CompletedTool(p) ==
    calls[p].op = "shutdown-simulator-by-udid" /\ calls[p].pc = "done"

\* C28: a shutdown-simulator-by-udid call first awaits the simctl shutdown;
\* it reports success exactly when that command completed and the
\* verification that followed found the udid absent from the booted
\* simulators it enumerated; when the command failed it reports an error
\* and awaited no verification, whatever the state of the device
C28_ToolSuccess ==
    \A p \in OpsProcs :
        CompletedTool(p)
        => /\ calls[p].effects # << >>
           /\ calls[p].effects[1].kind = "cli"
           /\ calls[p].effects[1].action = "shutdown"
           /\ calls[p].result \in {"success", "isError"}
           /\ calls[p].result = "success"
                <=> calls[p].effects
                        = <<Effect("cli", "shutdown", "resolved"),
                            Effect("enumeration", "getBootedSimulators", "absent")>>
           /\ calls[p].effects[1].outcome = "rejected"
                => /\ Len(calls[p].effects) = 1
                   /\ calls[p].result = "isError"

\* the simctl shutdown of the tool failed on a device that is not booted:
\* the tool reported an error and verified nothing
C28_Witness ==
    \E p \in OpsProcs :
        /\ CompletedTool(p)
        /\ calls[p].effects = <<Effect("cli", "shutdown", "rejected")>>
        /\ calls[p].result = "isError"
        /\ DeviceState(listing, calls[p].udid) = "Shutdown"

(***************************************************************************)
(* Properties of interleaved calls on one session (checked under SpecRace) *)
(***************************************************************************)
\* where a call is suspended while an action of the device handle is
\* awaited: stat(), shutdown(), and the action of a delegating method
HandlePcs == {"stat", "apiShutdown", "handleAction"}

\* where a call is suspended while a simctl shutdown by udid is awaited
CliPcs == {"cliFallback", "cliRetry"}

\* C29: whatever the interleaving of the methods that take a session id, a
\* call starts awaiting an action of the device handle only in a step in
\* which its session id is a key of the registry
C29_HandleOnlyForRegistered ==
    [][\A p \in Procs :
        (calls'[p].pc \in HandlePcs /\ calls'[p] # calls[p])
        => /\ calls'[p].sessionId \in DOMAIN sessions
           /\ calls'[p].sessionId \in DOMAIN sessions'
           /\ calls'[p].session = calls'[p].sessionId]_vars

\* a terminateSession of one caller removed the session while the
\* shutdownSimulator of the other, begun on the registered session, awaits
\* a simctl shutdown by udid
C29_Witness ==
    \E p, q \in Procs :
        /\ p # q
        /\ calls[p].op = "shutdownSimulator"
        /\ calls[p].pc \in CliPcs
        /\ calls[q].op = "terminateSession"
        /\ calls[q].pc = "done"
        /\ calls[q].result = "true"
        /\ calls[q].sessionId = calls[p].sessionId
        /\ calls[p].sessionId \notin DOMAIN sessions

(***************************************************************************)
(* The value of terminateSession (checked under Spec)                      *)
(***************************************************************************)
\* caller p starts a terminateSession in this step
StartsTerminate(p) ==
    /\ CanStart(p)
    /\ calls'[p] # calls[p]
    /\ calls'[p].op = "terminateSession"

\* C30: a terminateSession holds a session exactly when its id was a key of
\* the registry in the step that started it, and returns false at once
\* otherwise; a completed terminateSession returned true exactly when it
\* held a session, whatever shutdownSimulator returned to it and whoever
\* removed the record
C30_TrueIffPresentAtStart ==
    /\ [](\A p \in Procs :
            (calls[p].op = "terminateSession" /\ calls[p].pc = "done")
            => /\ calls[p].result \in {"true", "false"}
               /\ calls[p].result = "true" <=> calls[p].session # 0)
    /\ [][\A p \in Procs :
            StartsTerminate(p)
            => /\ calls'[p].session # 0 <=> calls'[p].sessionId \in DOMAIN sessions
               /\ calls'[p].session # 0 => calls'[p].session = calls'[p].sessionId
               /\ calls'[p].session = 0
                    => calls'[p].pc = "done" /\ calls'[p].result = "false"]_vars

\* two concurrent terminateSession of one id both returned true: the
\* shutdown of one failed, the other found the device stopped and skipped it
C30_Witness ==
    \E p, q \in Procs :
        /\ p # q
        /\ calls[p].op = "terminateSession" /\ calls[q].op = "terminateSession"
        /\ calls[p].pc = "done" /\ calls[q].pc = "done"
        /\ calls[p].sessionId = calls[q].sessionId
        /\ calls[p].result = "true" /\ calls[q].result = "true"
        /\ calls[p].shutdownResult = "false"
        /\ calls[q].shutdownResult = "none"

====
